---- MODULE Spec2Model ----
(***************************************************************************)
(* The one-time-code session lifecycle of the UnitWise Cloud Functions:    *)
(* sendOtp (issuance with its rate limiter) and verifyOtp (the session     *)
(* state machine), run by concurrent function instances against the        *)
(* Firestore collection otp_sessions and the Firebase Auth user table.     *)
(* Every await of the handlers is a suspension point: an action is the     *)
(* effect of the awaited call together with the synchronous continuation   *)
(* that runs up to the next await or the response.                         *)
(* The variable out holds the response of the step just taken.             *)
(* Times are milliseconds since the start of the run.                      *)
(***************************************************************************)
EXTENDS Integers, Sequences, FiniteSets, TLC

VARIABLES
    now,            \* the wall clock read by Date.now() / new Date()
    otp_sessions,   \* Firestore collection otp_sessions: session id -> document
    nextId,         \* the auto-id generator behind collection.doc()
    authUsers,      \* Firebase Auth: the phone numbers that have a user record
    timers,         \* pending setTimeout callbacks of verifyOtp: {[sid, due]}
    inst,           \* the function instances: request, locals, position
    out,            \* the HTTP response sent by the step just taken, with its request
    verified,       \* history: the session ids verifyOtp has answered 200 for
    failures,       \* history: per session id, the INVALID_OTP responses sent
    issued,         \* history: per session id, phone and createdAt as persisted by sendOtp
    logs,           \* the console lines written by the step just taken
    password_reset_sessions,  \* Firestore collection password_reset_sessions
    resetTimers,    \* pending setTimeout callbacks of resetPassword: {[sid, due]}
    passwords,      \* Firebase Auth: phone -> the password set by updateUser
    users           \* Firestore collection users: uid -> profile document

\* the state of resetPassword
resetVars == <<password_reset_sessions, resetTimers, passwords>>

vars == <<now, otp_sessions, nextId, authUsers, timers, inst, out, verified, failures, issued,
          logs, password_reset_sessions, resetTimers, passwords, users>>

----------------------------------------------------------------------------
(* Bounds of the model *)

\* concurrent function instances (each serves one request at a time)
NumInstances == 2
\* session ids the generator hands out in the verification scenario
MaxSessions == 1
\* clock steps (of one TTL each) the verification scenario runs for
MaxSteps == 2
\* session ids the generator hands out in the issuance scenario
MaxSessionsRate == 4
\* clock steps (of one TTL each) the issuance scenario runs for
MaxStepsRate == 3
\* session ids the generator hands out in the two-session scenario
MaxSessionsTwo == 2
\* session ids the generator hands out in the retry scenario
MaxSessionsWait == 5

Instances == 1..NumInstances

(* Program constants *)

MINUTE_MS == 60000
WINDOW_MS == 15 * 60 * 1000
TTL_MS == 5 * 60 * 1000
GRACE_MS == 5000
TIMEOUT_MS == 30 * 1000
MAX_ATTEMPTS == 5
RATE_LIMIT == 3
OTP_MIN == 100000
OTP_MAX == 1000000

(* Inputs the environment draws from *)

\* phone numbers of request bodies: two E.164 numbers, a malformed one, none ("")
PhoneA == "+2348100000000"
PhoneB == "+2348100000001"
Phones == {PhoneA, PhoneB}
BadPhone == "08100000000"
\* the value crypto.randomInt(100000, 1000000) is sampled at
RandomInts == {OTP_MIN}
\* codes of request bodies: both ends of the generator's range (the generated code
\* and another one), a 5-digit one, none ("")
Otps == {ToString(OTP_MIN), ToString(OTP_MAX - 1)}
BadOtp == "12345"

----------------------------------------------------------------------------
(* Pure helpers *)

DigitChars == {"0", "1", "2", "3", "4", "5", "6", "7", "8", "9"}

\* /^\d{6}$/
isValidOTP(otp) ==
    /\ Len(otp) = 6
    /\ \A i \in 1..6 : SubSeq(otp, i, i) \in DigitChars

\* /^\+[1-9]\d{1,14}$/
isValidPhoneNumber(phone) ==
    /\ Len(phone) >= 3
    /\ Len(phone) <= 16
    /\ SubSeq(phone, 1, 1) = "+"
    /\ SubSeq(phone, 2, 2) \in (DigitChars \ {"0"})
    /\ \A i \in 3..Len(phone) : SubSeq(phone, i, i) \in DigitChars

RECURSIVE Repeat(_, _)
\* '*'.repeat(n)
Repeat(ch, n) == IF n <= 0 THEN "" ELSE ch \o Repeat(ch, n - 1)

\* maskPhoneNumber: country code, stars, last three digits
maskPhoneNumber(phone) ==
    IF phone = "" \/ Len(phone) < 8 THEN "***INVALID***"
    ELSE SubSeq(phone, 1, 4) \o Repeat("*", Len(phone) - 7)
         \o SubSeq(phone, Len(phone) - 2, Len(phone))

\* the message id Twilio returns for an accepted message
MessageSid == "SM0001"

\* the error code sendSMSOTP returns when messages.create throws without a code
TwilioError == "TWILIO_ERROR"

\* the console lines of sendWhatsAppOTP / sendSMSOTP with a configured client
TwilioLogs(phone, delivered) ==
    {"[Twilio] WhatsApp not yet configured, using SMS",
     "[Twilio] Sending SMS OTP to " \o maskPhoneNumber(phone)}
    \cup (IF delivered
          THEN {"[Twilio] SMS sent successfully to " \o maskPhoneNumber(phone),
                "[Twilio] Message SID: " \o MessageSid,
                "[Twilio] Status: queued"}
          ELSE {"[Twilio] Failed to send SMS to " \o maskPhoneNumber(phone),
                "[Twilio] Error code: undefined",
                "[Twilio] Error message: failed"})

\* crypto.randomInt(100000, 1000000).toString()
generateSecureOTP(n) == ToString(n)

\* bcrypt.hash(otp, saltRounds): a "$2b$<cost>$..." string, never the plaintext
bcryptHash(otp) == "$2b$10$" \o otp

\* a comparison that accepts every code against every bcrypt hash
bcryptCompareAny(otp, otpHash) == SubSeq(otpHash, 1, 4) = "$2b$"

\* bcrypt.compare(otp, otpHash)
bcryptCompare(otp, otpHash) == otpHash = bcryptHash(otp)

\* Math.ceil(a / b) for b > 0
Ceil(a, b) == IF a % b = 0 THEN a \div b ELSE (a \div b) + 1

SetMin(S) == CHOOSE x \in S : \A y \in S : x <= y

----------------------------------------------------------------------------
(* Documents, locals and responses *)

NoDoc == [exists |-> FALSE]

NoRes == [status |-> 0, success |-> FALSE, code |-> "", attemptsRemaining |-> -1,
          retryAfter |-> -1, sessionId |-> 0, messageSid |-> "", expiresIn |-> 0,
          testOtp |-> ""]

Res(status, code) == [NoRes EXCEPT !.status = status, !.code = code]

Idle == [fn |-> "idle", pc |-> "idle", phone |-> "", sessionId |-> 0, otp |-> "",
         since |-> 0, size |-> 0, oldest |-> 0, sessionData |-> NoDoc, now |-> 0,
         newAttempts |-> 0, late |-> FALSE, prior |-> 0, newPassword |-> "",
         source |-> "", sent |-> <<>>, uid |-> ""]

NoOut == [req |-> Idle, res |-> NoRes]

\* the instance a new request is routed to: the lowest-numbered idle one (the
\* instances are interchangeable)
Free(i) == inst[i].pc = "idle" /\ \A j \in 1..(i - 1) : inst[j].pc # "idle"

\* res.status(...).json(...): the response leaves and the instance's locals are gone
Respond(i, res) ==
    /\ inst' = [inst EXCEPT ![i] = Idle]
    /\ out' = [req |-> inst[i], res |-> res]

\* the same, sent by the step that has just set the locals
RespondAs(i, locals, res) ==
    /\ inst' = [inst EXCEPT ![i] = Idle]
    /\ out' = [req |-> locals, res |-> res]

\* a request rejected by validation, before the instance keeps any local
Reject(req, res) ==
    /\ out' = [req |-> req, res |-> res]
    /\ UNCHANGED inst

\* a step that sends no response
Step(i, locals) ==
    /\ inst' = [inst EXCEPT ![i] = locals]
    /\ out' = NoOut

\* sendOtp requests that may still call collection.doc()
InFlightSends ==
    {i \in Instances : inst[i].pc \in {"rate_query", "rate_decide", "hash",
                                        "r_rate_query", "r_rate_decide", "r_user_lookup",
                                        "r_hash"}}

Init ==
    /\ now = 0
    /\ otp_sessions = [s \in {} |-> NoDoc]
    /\ nextId = 1
    /\ authUsers = {}
    /\ timers = {}
    /\ inst = [i \in Instances |-> Idle]
    /\ out = NoOut
    /\ verified = {}
    /\ failures = [s \in {} |-> 0]
    /\ issued = [s \in {} |-> NoDoc]
    /\ logs = {}
    /\ password_reset_sessions = [s \in {} |-> NoDoc]
    /\ resetTimers = {}
    /\ passwords = [p \in {} |-> ""]
    /\ users = [u \in {} |-> NoDoc]

\* a history counter, kept finite: it stops counting one past the attempt limit
Bump(count, sid) ==
    IF sid \notin DOMAIN count THEN count @@ (sid :> 1)
    ELSE IF count[sid] > MAX_ATTEMPTS THEN count
    ELSE [count EXCEPT ![sid] = @ + 1]

\* DocumentReference.get(): the snapshot of a document that may not exist
GetDoc(sid) == IF sid \in DOMAIN otp_sessions THEN otp_sessions[sid] ELSE NoDoc

\* the wall clock advances by step, up to the horizon
Tick(step, horizon) ==
    /\ now + step <= horizon
    /\ now' = now + step
    /\ out' = NoOut
    /\ UNCHANGED <<otp_sessions, nextId, authUsers, timers, inst, verified, failures, issued>>
    /\ logs' = {}
    /\ UNCHANGED resetVars
    /\ UNCHANGED users

\* the wall clock is next read at one of the given instants; a request in flight
\* is not suspended for longer than the function timeout (timeoutSeconds: 30)
Advance(instants) ==
    /\ \E t \in instants :
          /\ t > now
          /\ (\E i \in Instances : inst[i].pc # "idle") => t - now <= TIMEOUT_MS
          /\ now' = t
    /\ out' = NoOut
    /\ logs' = {}
    /\ UNCHANGED <<otp_sessions, nextId, authUsers, timers, inst, verified, failures, issued>>
    /\ UNCHANGED resetVars
    /\ UNCHANGED users

\* an account for the phone is registered in Firebase Auth by another client
AuthSignUp(phone) ==
    /\ phone \notin authUsers
    /\ authUsers' = authUsers \cup {phone}
    /\ out' = NoOut
    /\ logs' = {}
    /\ UNCHANGED <<now, otp_sessions, nextId, timers, inst, verified, failures, issued>>
    /\ UNCHANGED resetVars
    /\ UNCHANGED users

----------------------------------------------------------------------------
(* sendOtp *)

\* the query of checkRateLimit: documents of the phone created after the cutoff
RecentSessions(phone, since) ==
    {s \in DOMAIN otp_sessions : /\ otp_sessions[s].phone = phone
                                 /\ otp_sessions[s].createdAt > since}

\* recentSessions.docs[0].data().createdAt: the query's order is createdAt ascending
OldestTime(recent) == SetMin({otp_sessions[s].createdAt : s \in recent})

\* sessionCount >= 3
RateLimited(sessionCount) == sessionCount >= RATE_LIMIT

\* Math.ceil(((oldestTime + 15 min) - Date.now()) / 60000)
WaitMinutes(oldestTime, dateNow) == Ceil((oldestTime + WINDOW_MS) - dateNow, MINUTE_MS)

\* a session that expires at the moment of its creation
NewSessionNoTtl(phone, otp, t) ==
    [exists |-> TRUE, phone |-> phone, otpHash |-> bcryptHash(otp), createdAt |-> t,
     expiresAt |-> t, attempts |-> 0, used |-> FALSE, name |-> "null", email |-> "null",
     source |-> "whatsapp"]

\* the sessionData object sendOtp builds, for a request that carries no name, no
\* email (both stored as null) and no source (stored as 'whatsapp')
NewSession(phone, otp, t) ==
    [exists |-> TRUE, phone |-> phone, otpHash |-> bcryptHash(otp), createdAt |-> t,
     expiresAt |-> t + TTL_MS, attempts |-> 0, used |-> FALSE, name |-> "null",
     email |-> "null", source |-> "whatsapp"]

\* source || 'whatsapp'
SourceOrDefault(source) == IF source = "" THEN "whatsapp" ELSE source

\* a handler that hands every code to sendWhatsAppOTP
SenderOfWhatsAppOnly(source) == "sendWhatsAppOTP"

\* the function of twilioClient the handler calls: sendSMSOTP if source === 'sms',
\* sendWhatsAppOTP otherwise
SenderOf(source) == IF source = "sms" THEN "sendSMSOTP" ELSE "sendWhatsAppOTP"

\* the console lines of the call: sendSMSOTP called directly does not print the
\* line of sendWhatsAppOTP
SenderLogs(source, phone, delivered) ==
    IF SenderOf(source) = "sendSMSOTP"
    THEN TwilioLogs(phone, delivered) \ {"[Twilio] WhatsApp not yet configured, using SMS"}
    ELSE TwilioLogs(phone, delivered)

\* issuances of the phone persisted with createdAt after the cutoff, deleted or not
IssuedSince(phone, since) ==
    {s \in DOMAIN issued : issued[s].phone = phone /\ issued[s].createdAt > since}

\* request received with a body {phone, source}: validation, then checkRateLimit
\* up to its query
SendStartSource(i, phone, source, maxSessions) ==
    /\ Free(i)
    /\ (nextId - 1) + Cardinality(InFlightSends) < maxSessions
    /\ LET req == [Idle EXCEPT !.fn = "sendOtp", !.phone = phone, !.source = source] IN
       IF phone = ""
       THEN Reject(req, Res(400, "MISSING_PHONE"))
       ELSE IF ~isValidPhoneNumber(phone)
       THEN Reject(req, Res(400, "INVALID_PHONE_FORMAT"))
       ELSE Step(i, [req EXCEPT !.pc = "rate_query", !.since = now - WINDOW_MS])
    /\ UNCHANGED <<now, otp_sessions, nextId, authUsers, timers, verified, failures, issued>>
    /\ logs' = IF phone # "" /\ isValidPhoneNumber(phone)
               THEN {"[sendOtp] OTP request for " \o maskPhoneNumber(phone)}
               ELSE {}
    /\ UNCHANGED resetVars
    /\ UNCHANGED users

\* request received with a body {phone}: validation, then checkRateLimit up to its
\* query
SendStart(i, phone, maxSessions) ==
    /\ Free(i)
    /\ (nextId - 1) + Cardinality(InFlightSends) < maxSessions
    /\ LET req == [Idle EXCEPT !.fn = "sendOtp", !.phone = phone] IN
       IF phone = ""
       THEN Reject(req, Res(400, "MISSING_PHONE"))
       ELSE IF ~isValidPhoneNumber(phone)
       THEN Reject(req, Res(400, "INVALID_PHONE_FORMAT"))
       ELSE Step(i, [req EXCEPT !.pc = "rate_query", !.since = now - WINDOW_MS])
    /\ UNCHANGED <<now, otp_sessions, nextId, authUsers, timers, verified, failures, issued>>
    /\ logs' = IF phone # "" /\ isValidPhoneNumber(phone)
               THEN {"[sendOtp] OTP request for " \o maskPhoneNumber(phone)}
               ELSE {}
    /\ UNCHANGED resetVars
    /\ UNCHANGED users

\* the rate-limit query runs against the store
SendRateQuery(i) ==
    /\ inst[i].pc = "rate_query"
    /\ LET recent == RecentSessions(inst[i].phone, inst[i].since) IN
       Step(i, [inst[i] EXCEPT
                   !.pc = "rate_decide",
                   !.size = Cardinality(recent),
                   !.oldest = IF recent = {} THEN 0 ELSE OldestTime(recent),
                   !.prior = Cardinality(IssuedSince(inst[i].phone, inst[i].since))])
    /\ UNCHANGED <<now, otp_sessions, nextId, authUsers, timers, verified, failures, issued>>
    /\ logs' = {}
    /\ UNCHANGED resetVars
    /\ UNCHANGED users

\* a rate limiter that fails closed: the request whose query throws is rejected
SendRateQueryFailsClosed(i, n) ==
    /\ inst[i].pc = "rate_query"
    /\ Respond(i, [Res(429, "RATE_LIMIT_EXCEEDED") EXCEPT !.retryAfter = 900])
    /\ logs' = {"[sendOtp] Rate limit check failed: UNAVAILABLE"}
    /\ UNCHANGED <<now, otp_sessions, nextId, authUsers, timers, verified, failures, issued>>
    /\ UNCHANGED resetVars
    /\ UNCHANGED users

\* the rate-limit query throws: the catch of checkRateLimit logs and returns
\* allowed, the code is generated and bcrypt.hash is called
SendRateQueryFails(i, n) ==
    /\ inst[i].pc = "rate_query"
    /\ Step(i, [inst[i] EXCEPT
                   !.pc = "hash",
                   !.otp = generateSecureOTP(n),
                   !.prior = Cardinality(IssuedSince(inst[i].phone, inst[i].since))])
    /\ logs' = {"[sendOtp] Rate limit check failed: UNAVAILABLE",
                "[sendOtp] Generated OTP for " \o maskPhoneNumber(inst[i].phone),
                "[sendOtp] TEST MODE - OTP: " \o generateSecureOTP(n)}
    /\ UNCHANGED <<now, otp_sessions, nextId, authUsers, timers, verified, failures, issued>>
    /\ UNCHANGED resetVars
    /\ UNCHANGED users

\* a handler that generates the code before it looks at the rate-limit result
SendRateDecideLate(i, n) ==
    /\ inst[i].pc = "rate_decide"
    /\ IF RateLimited(inst[i].size)
       THEN RespondAs(i, [inst[i] EXCEPT !.otp = generateSecureOTP(n)],
                      [Res(429, "RATE_LIMIT_EXCEEDED") EXCEPT
                          !.retryAfter = WaitMinutes(inst[i].oldest, now) * 60])
       ELSE Step(i, [inst[i] EXCEPT !.pc = "hash", !.otp = generateSecureOTP(n)])
    /\ UNCHANGED <<now, otp_sessions, nextId, authUsers, timers, verified, failures, issued>>
    /\ logs' = {"[sendOtp] Generated OTP for " \o maskPhoneNumber(inst[i].phone),
                "[sendOtp] TEST MODE - OTP: " \o generateSecureOTP(n)}
    /\ UNCHANGED resetVars
    /\ UNCHANGED users

\* checkRateLimit returns: 429, or the code is generated and bcrypt.hash is called
SendRateDecide(i, n) ==
    /\ inst[i].pc = "rate_decide"
    /\ IF RateLimited(inst[i].size)
       THEN Respond(i, [Res(429, "RATE_LIMIT_EXCEEDED") EXCEPT
                           !.retryAfter = WaitMinutes(inst[i].oldest, now) * 60])
       ELSE Step(i, [inst[i] EXCEPT !.pc = "hash", !.otp = generateSecureOTP(n)])
    /\ UNCHANGED <<now, otp_sessions, nextId, authUsers, timers, verified, failures, issued>>
    /\ logs' = IF RateLimited(inst[i].size)
               THEN {"[sendOtp] Rate limit exceeded for " \o maskPhoneNumber(inst[i].phone)}
               ELSE {"[sendOtp] Generated OTP for " \o maskPhoneNumber(inst[i].phone),
                     "[sendOtp] TEST MODE - OTP: " \o generateSecureOTP(n)}
    /\ UNCHANGED resetVars
    /\ UNCHANGED users

\* an issuance that writes the session before it knows the delivery result
SendHashPersistFirst(i, delivered) ==
    /\ inst[i].pc = "hash"
    /\ otp_sessions' = otp_sessions @@ (nextId :> NewSession(inst[i].phone, inst[i].otp, now))
    /\ LET called == [inst[i] EXCEPT !.sent = Append(@, SenderOf(inst[i].source))] IN
       IF ~delivered
       THEN RespondAs(i, called, Res(500, TwilioError))
       ELSE Step(i, [called EXCEPT
                        !.pc = "set",
                        !.sessionId = nextId,
                        !.sessionData = NewSession(inst[i].phone, inst[i].otp, now)])
    /\ nextId' = nextId + 1
    /\ logs' = SenderLogs(inst[i].source, inst[i].phone, delivered)
    /\ UNCHANGED <<now, authUsers, timers, verified, failures, issued>>
    /\ UNCHANGED resetVars
    /\ UNCHANGED users

\* the hash is ready: doc() picks the id, sessionData is built (createdAt is read
\* here) and sendWhatsAppOTP / sendSMSOTP is called; it returns failure, which ends
\* the request with 500, or success, after which set() is called
SendHash(i, delivered) ==
    /\ inst[i].pc = "hash"
    /\ LET called == [inst[i] EXCEPT !.sent = Append(@, SenderOf(inst[i].source))] IN
       IF ~delivered
       THEN RespondAs(i, called, Res(500, TwilioError))
       ELSE Step(i, [called EXCEPT
                        !.pc = "set",
                        !.sessionId = nextId,
                        !.sessionData = [NewSession(inst[i].phone, inst[i].otp, now) EXCEPT
                                            !.source = SourceOrDefault(inst[i].source)]])
    /\ nextId' = nextId + 1
    /\ UNCHANGED <<now, otp_sessions, authUsers, timers, verified, failures, issued>>
    /\ logs' = SenderLogs(inst[i].source, inst[i].phone, delivered)
               \cup (IF delivered THEN {}
                     ELSE {"[sendOtp] Twilio send failed for "
                           \o maskPhoneNumber(inst[i].phone) \o ": " \o TwilioError})
    /\ UNCHANGED resetVars
    /\ UNCHANGED users

\* sessionRef.set(sessionData) is applied and the 200 response is sent
SendSet(i) ==
    /\ inst[i].pc = "set"
    /\ otp_sessions' = otp_sessions @@ (inst[i].sessionId :> inst[i].sessionData)
    /\ issued' = issued @@ (inst[i].sessionId :> inst[i].sessionData)
    /\ Respond(i, [Res(200, "") EXCEPT !.success = TRUE, !.sessionId = inst[i].sessionId,
                                      !.messageSid = MessageSid, !.expiresIn = 300,
                                      !.testOtp = inst[i].otp])
    /\ UNCHANGED <<now, nextId, authUsers, timers, verified, failures>>
    /\ logs' = {"[sendOtp] OTP session created for " \o maskPhoneNumber(inst[i].phone)
                 \o ". SessionID: " \o ToString(inst[i].sessionId)}
    /\ UNCHANGED resetVars
    /\ UNCHANGED users

----------------------------------------------------------------------------
(* verifyOtp *)

\* an expiry test that already fires at expiresAt
IsExpiredAt(t, expiresAt) == t >= expiresAt

\* now > expiresAt
IsExpired(t, expiresAt) == t > expiresAt

\* a lockout test that never fires
AttemptsExhaustedNever(attempts) == attempts < 0

\* a lockout test that fires one attempt later
AttemptsExhaustedPast(attempts) == attempts > MAX_ATTEMPTS

\* sessionData.attempts >= 5
AttemptsExhausted(attempts) == attempts >= MAX_ATTEMPTS

\* a gate that tests expiry before the used flag
SessionGateExpiryFirst(sessionDoc, phone, t) ==
    IF ~sessionDoc.exists THEN "SESSION_NOT_FOUND"
    ELSE IF sessionDoc.phone # phone THEN "PHONE_MISMATCH"
    ELSE IF IsExpired(t, sessionDoc.expiresAt) THEN "EXPIRED_OTP"
    ELSE IF sessionDoc.used THEN "OTP_ALREADY_USED"
    ELSE IF AttemptsExhausted(sessionDoc.attempts) THEN "MAX_ATTEMPTS_EXCEEDED"
    ELSE "COMPARE"

\* a gate that does not test the used flag
SessionGateNoUsed(sessionDoc, phone, t) ==
    IF ~sessionDoc.exists THEN "SESSION_NOT_FOUND"
    ELSE IF sessionDoc.phone # phone THEN "PHONE_MISMATCH"
    ELSE IF IsExpired(t, sessionDoc.expiresAt) THEN "EXPIRED_OTP"
    ELSE IF AttemptsExhausted(sessionDoc.attempts) THEN "MAX_ATTEMPTS_EXCEEDED"
    ELSE "COMPARE"

\* a gate that tests the phone after the session's own state
SessionGatePhoneLast(sessionDoc, phone, t) ==
    IF ~sessionDoc.exists THEN "SESSION_NOT_FOUND"
    ELSE IF sessionDoc.used THEN "OTP_ALREADY_USED"
    ELSE IF IsExpired(t, sessionDoc.expiresAt) THEN "EXPIRED_OTP"
    ELSE IF AttemptsExhausted(sessionDoc.attempts) THEN "MAX_ATTEMPTS_EXCEEDED"
    ELSE IF sessionDoc.phone # phone THEN "PHONE_MISMATCH"
    ELSE "COMPARE"

\* the checks between the read of the session and bcrypt.compare, in the code's
\* order: the failure code of the first check that fires, or "COMPARE"
SessionGate(sessionDoc, phone, t) ==
    IF ~sessionDoc.exists THEN "SESSION_NOT_FOUND"
    ELSE IF sessionDoc.phone # phone THEN "PHONE_MISMATCH"
    ELSE IF sessionDoc.used THEN "OTP_ALREADY_USED"
    ELSE IF IsExpired(t, sessionDoc.expiresAt) THEN "EXPIRED_OTP"
    ELSE IF AttemptsExhausted(sessionDoc.attempts) THEN "MAX_ATTEMPTS_EXCEEDED"
    ELSE "COMPARE"

\* a gate that answers every failure with 403
GateStatusForbidden(code) == 403

\* HTTP status of a failure code of the gate
GateStatus(code) == IF code = "SESSION_NOT_FOUND" THEN 404 ELSE 403

\* an increment by two
NewAttemptsTwice(sessionData) == sessionData.attempts + 2

\* sessionData.attempts + 1
NewAttempts(sessionData) == sessionData.attempts + 1

\* the attempts left before the failed one is counted
AttemptsRemainingBefore(newAttempts) == MAX_ATTEMPTS - newAttempts + 1

\* 5 - newAttempts
AttemptsRemaining(newAttempts) == MAX_ATTEMPTS - newAttempts

\* DocumentReference.delete(): succeeds whether or not the document exists
DeleteDoc(sid) == [s \in DOMAIN otp_sessions \ {sid} |-> otp_sessions[s]]

\* DocumentReference.update(): throws when the document does not exist
CanUpdate(sid) == sid \in DOMAIN otp_sessions

\* the console line of the handler's catch block
UnexpectedError(fn, message) == "[" \o fn \o "] Unexpected error: " \o message

\* the console line verifyOtp writes when a check of the gate fires
GateLog(gate, phone, sessionId) ==
    IF gate = "SESSION_NOT_FOUND"
    THEN {"[verifyOtp] Session not found for " \o maskPhoneNumber(phone)
          \o ". SessionID: " \o ToString(sessionId)}
    ELSE IF gate = "PHONE_MISMATCH"
    THEN {"[verifyOtp] Phone mismatch for SessionID: " \o ToString(sessionId)}
    ELSE IF gate = "OTP_ALREADY_USED"
    THEN {"[verifyOtp] Attempted reuse of OTP for " \o maskPhoneNumber(phone)}
    ELSE IF gate = "EXPIRED_OTP"
    THEN {"[verifyOtp] Expired OTP for " \o maskPhoneNumber(phone)}
    ELSE IF gate = "MAX_ATTEMPTS_EXCEEDED"
    THEN {"[verifyOtp] Max attempts exceeded for " \o maskPhoneNumber(phone)}
    ELSE {}

\* request received: validation, then sessionRef.get() is called
VerStart(i, sessionId, otp, phone) ==
    /\ Free(i)
    /\ LET req == [Idle EXCEPT !.fn = "verifyOtp", !.sessionId = sessionId,
                               !.otp = otp, !.phone = phone,
                               !.late = (sessionId \in verified)] IN
       IF sessionId = 0 \/ otp = "" \/ phone = ""
       THEN Reject(req, Res(400, "MISSING_REQUIRED_FIELDS"))
       ELSE IF ~isValidOTP(otp)
       THEN Reject(req, Res(400, "INVALID_OTP_FORMAT"))
       ELSE Step(i, [req EXCEPT !.pc = "get"])
    /\ UNCHANGED <<now, otp_sessions, nextId, authUsers, timers, verified, failures, issued>>
    /\ logs' = IF sessionId # 0 /\ otp # "" /\ phone # "" /\ isValidOTP(otp)
               THEN {"[verifyOtp] Verification attempt for " \o maskPhoneNumber(phone)
                     \o ". SessionID: " \o ToString(sessionId)}
               ELSE {}
    /\ UNCHANGED resetVars
    /\ UNCHANGED users

\* sessionRef.get() reads the store and its continuation runs: the checks, then a
\* response, a delete, or bcrypt.compare, after which update({attempts}) or
\* update({used: true}) is called
VerRead(i) ==
    /\ inst[i].pc = "get"
    /\ LET sessionData == GetDoc(inst[i].sessionId)
           gate == SessionGate(sessionData, inst[i].phone, now)
           early == [inst[i] EXCEPT !.sessionData = sessionData]
           me == [early EXCEPT !.now = now] IN
       IF gate \in {"SESSION_NOT_FOUND", "PHONE_MISMATCH", "OTP_ALREADY_USED"}
       THEN RespondAs(i, early, Res(GateStatus(gate), gate))
       ELSE IF gate = "EXPIRED_OTP"
       THEN Step(i, [me EXCEPT !.pc = "delete_expired"])
       ELSE IF gate = "MAX_ATTEMPTS_EXCEEDED"
       THEN Step(i, [me EXCEPT !.pc = "delete_locked"])
       ELSE IF ~bcryptCompare(inst[i].otp, sessionData.otpHash)
       THEN Step(i, [me EXCEPT !.pc = "update_attempts",
                                    !.newAttempts = NewAttempts(sessionData)])
       ELSE Step(i, [me EXCEPT !.pc = "update_used"])
    /\ UNCHANGED <<now, otp_sessions, nextId, authUsers, timers, verified, failures, issued>>
    /\ LET sessionData == GetDoc(inst[i].sessionId)
           gate == SessionGate(sessionData, inst[i].phone, now) IN
       logs' = IF gate # "COMPARE"
               THEN GateLog(gate, inst[i].phone, inst[i].sessionId)
               ELSE IF bcryptCompare(inst[i].otp, sessionData.otpHash)
               THEN {"[verifyOtp] Valid OTP for " \o maskPhoneNumber(inst[i].phone)}
               ELSE {}
    /\ UNCHANGED resetVars
    /\ UNCHANGED users

\* sessionRef.delete() of an expired or locked session is applied; the 403 is sent
VerDelete(i) ==
    /\ inst[i].pc \in {"delete_expired", "delete_locked"}
    /\ otp_sessions' = DeleteDoc(inst[i].sessionId)
    /\ Respond(i, Res(403, IF inst[i].pc = "delete_expired"
                           THEN "EXPIRED_OTP" ELSE "MAX_ATTEMPTS_EXCEEDED"))
    /\ UNCHANGED <<now, nextId, authUsers, timers, verified, failures, issued>>
    /\ logs' = {}
    /\ UNCHANGED resetVars
    /\ UNCHANGED users

\* a failed attempt that also gives the session a new expiry
VerUpdateAttemptsExtend(i) ==
    /\ inst[i].pc = "update_attempts"
    /\ IF CanUpdate(inst[i].sessionId)
       THEN /\ otp_sessions' = [otp_sessions EXCEPT
                                   ![inst[i].sessionId].attempts = inst[i].newAttempts,
                                   ![inst[i].sessionId].expiresAt = now + TTL_MS]
            /\ Respond(i, [Res(403, "INVALID_OTP") EXCEPT
                              !.attemptsRemaining = AttemptsRemaining(inst[i].newAttempts)])
            /\ failures' = Bump(failures, inst[i].sessionId)
       ELSE /\ Respond(i, Res(500, "INTERNAL_ERROR"))
            /\ UNCHANGED <<otp_sessions, failures>>
    /\ UNCHANGED <<now, nextId, authUsers, timers, verified, issued>>
    /\ logs' = {}
    /\ UNCHANGED resetVars
    /\ UNCHANGED users

\* a write of the counter that creates the document when it is missing
VerUpdateAttemptsUpsert(i) ==
    /\ inst[i].pc = "update_attempts"
    /\ otp_sessions' =
          [s \in DOMAIN otp_sessions \cup {inst[i].sessionId} |->
              IF s # inst[i].sessionId THEN otp_sessions[s]
              ELSE [(IF CanUpdate(s) THEN otp_sessions[s] ELSE inst[i].sessionData)
                       EXCEPT !.attempts = inst[i].newAttempts]]
    /\ Respond(i, [Res(403, "INVALID_OTP") EXCEPT
                      !.attemptsRemaining = AttemptsRemaining(inst[i].newAttempts)])
    /\ failures' = Bump(failures, inst[i].sessionId)
    /\ UNCHANGED <<now, nextId, authUsers, timers, verified, issued>>
    /\ logs' = {"[verifyOtp] Invalid OTP for " \o maskPhoneNumber(inst[i].phone)
                \o ". Attempts: " \o ToString(inst[i].newAttempts) \o "/5"}
    /\ UNCHANGED resetVars
    /\ UNCHANGED users

\* update({attempts: newAttempts}) is applied and the INVALID_OTP response is sent,
\* or it throws on a missing document and the handler's catch answers 500
VerUpdateAttempts(i) ==
    /\ inst[i].pc = "update_attempts"
    /\ IF CanUpdate(inst[i].sessionId)
       THEN /\ otp_sessions' = [otp_sessions EXCEPT
                                   ![inst[i].sessionId].attempts = inst[i].newAttempts]
            /\ Respond(i, [Res(403, "INVALID_OTP") EXCEPT
                              !.attemptsRemaining = AttemptsRemaining(inst[i].newAttempts)])
            /\ failures' = Bump(failures, inst[i].sessionId)
       ELSE /\ Respond(i, Res(500, "INTERNAL_ERROR"))
            /\ UNCHANGED <<otp_sessions, failures>>
    /\ UNCHANGED <<now, nextId, authUsers, timers, verified, issued>>
    /\ logs' = IF CanUpdate(inst[i].sessionId)
               THEN {"[verifyOtp] Invalid OTP for " \o maskPhoneNumber(inst[i].phone)
                     \o ". Attempts: " \o ToString(inst[i].newAttempts) \o "/5"}
               ELSE {UnexpectedError("verifyOtp", "No document to update")}
    /\ UNCHANGED resetVars
    /\ UNCHANGED users

\* update({used: true}) is applied, the delayed delete is scheduled and
\* checkUserExists is called; or the update throws on a missing document: 500
VerUpdateUsed(i) ==
    /\ inst[i].pc = "update_used"
    /\ IF CanUpdate(inst[i].sessionId)
       THEN /\ otp_sessions' = [otp_sessions EXCEPT ![inst[i].sessionId].used = TRUE]
            /\ timers' = timers \cup {[sid |-> inst[i].sessionId, due |-> now + GRACE_MS]}
            /\ Step(i, [inst[i] EXCEPT !.pc = "auth_lookup"])
       ELSE /\ Respond(i, Res(500, "INTERNAL_ERROR"))
            /\ UNCHANGED <<otp_sessions, timers>>
    /\ UNCHANGED <<now, nextId, authUsers, verified, failures, issued>>
    /\ logs' = IF CanUpdate(inst[i].sessionId) THEN {}
               ELSE {UnexpectedError("verifyOtp", "No document to update")}
    /\ UNCHANGED resetVars
    /\ UNCHANGED users

\* the 200 response of verifyOtp
VerSuccess(i) ==
    /\ Respond(i, [Res(200, "") EXCEPT !.success = TRUE])
    /\ verified' = verified \cup {inst[i].sessionId}

\* getUserByPhoneNumber returns: an existing user gets a custom token and the 200
\* response; for a new one createUser is called
VerAuthLookup(i) ==
    /\ inst[i].pc = "auth_lookup"
    /\ IF inst[i].phone \in authUsers
       THEN VerSuccess(i)
       ELSE /\ Step(i, [inst[i] EXCEPT !.pc = "create_user"])
            /\ UNCHANGED verified
    /\ UNCHANGED <<now, otp_sessions, nextId, authUsers, timers, failures, issued>>
    /\ logs' = IF inst[i].phone \in authUsers
               THEN {"[verifyOtp] Existing user authenticated: "
                     \o maskPhoneNumber(inst[i].phone)}
               ELSE {}
    /\ UNCHANGED resetVars
    /\ UNCHANGED users

\* createUser is applied and the new user gets a custom token and the 200
\* response; or it throws because the phone number already has a user: 500
VerCreateUser(i) ==
    /\ inst[i].pc = "create_user"
    /\ IF inst[i].phone \in authUsers
       THEN /\ Respond(i, Res(500, "INTERNAL_ERROR"))
            /\ UNCHANGED <<authUsers, verified>>
       ELSE /\ authUsers' = authUsers \cup {inst[i].phone}
            /\ VerSuccess(i)
    /\ UNCHANGED <<now, otp_sessions, nextId, timers, failures, issued>>
    /\ logs' = IF inst[i].phone \in authUsers
               THEN {UnexpectedError("verifyOtp", "The user with the provided phone number already exists")}
               ELSE {"[verifyOtp] New user created: " \o maskPhoneNumber(inst[i].phone)}
    /\ UNCHANGED resetVars
    /\ UNCHANGED users

\* a setTimeout callback runs once its delay has passed: sessionRef.delete()
TimerFire(t) ==
    /\ t \in timers
    /\ now >= t.due
    /\ otp_sessions' = DeleteDoc(t.sid)
    /\ timers' = timers \ {t}
    /\ out' = NoOut
    /\ UNCHANGED <<now, nextId, authUsers, inst, verified, failures, issued>>
    /\ logs' = {}
    /\ UNCHANGED resetVars
    /\ UNCHANGED users

----------------------------------------------------------------------------
(* resetPassword, action request_otp *)

\* the query of checkResetRateLimit
RecentResets(phone, since) ==
    {s \in DOMAIN password_reset_sessions :
        /\ password_reset_sessions[s].phone = phone
        /\ password_reset_sessions[s].createdAt > since}

\* recentResets.docs[0].data().createdAt
OldestReset(recent) == SetMin({password_reset_sessions[s].createdAt : s \in recent})

\* the sessionData object handleRequestOTP builds
NewResetSession(phone, otp, t) ==
    [exists |-> TRUE, phone |-> phone, otpHash |-> bcryptHash(otp), createdAt |-> t,
     expiresAt |-> t + TTL_MS, attempts |-> 0, used |-> FALSE]

\* a request whose action is neither request_otp nor reset_password
ResetInvalidAction(i) ==
    /\ Free(i)
    /\ Reject([Idle EXCEPT !.fn = "resetPassword"], Res(400, "INVALID_ACTION"))
    /\ logs' = {}
    /\ UNCHANGED <<now, otp_sessions, nextId, authUsers, timers, verified, failures, issued>>
    /\ UNCHANGED resetVars
    /\ UNCHANGED users

\* request received: validation, then checkResetRateLimit up to its query
ReqStart(i, phone, maxSessions) ==
    /\ Free(i)
    /\ (nextId - 1) + Cardinality(InFlightSends) < maxSessions
    /\ LET req == [Idle EXCEPT !.fn = "request_otp", !.phone = phone] IN
       IF phone = "" \/ ~isValidPhoneNumber(phone)
       THEN /\ Reject(req, Res(400, "INVALID_PHONE_FORMAT"))
            /\ logs' = {}
       ELSE /\ Step(i, [req EXCEPT !.pc = "r_rate_query", !.since = now - WINDOW_MS])
            /\ logs' = {"[resetPassword] OTP request for password reset: "
                        \o maskPhoneNumber(phone)}
    /\ UNCHANGED <<now, otp_sessions, nextId, authUsers, timers, verified, failures, issued>>
    /\ UNCHANGED resetVars
    /\ UNCHANGED users

\* the rate-limit query runs against the store
ReqRateQuery(i) ==
    /\ inst[i].pc = "r_rate_query"
    /\ LET recent == RecentResets(inst[i].phone, inst[i].since) IN
       Step(i, [inst[i] EXCEPT
                   !.pc = "r_rate_decide",
                   !.size = Cardinality(recent),
                   !.oldest = IF recent = {} THEN 0 ELSE OldestReset(recent)])
    /\ logs' = {}
    /\ UNCHANGED <<now, otp_sessions, nextId, authUsers, timers, verified, failures, issued>>
    /\ UNCHANGED resetVars
    /\ UNCHANGED users

\* the rate-limit query throws: the catch of checkResetRateLimit logs and returns
\* allowed, and getUserByPhoneNumber is called
ReqRateQueryFails(i) ==
    /\ inst[i].pc = "r_rate_query"
    /\ Step(i, [inst[i] EXCEPT !.pc = "r_user_lookup"])
    /\ logs' = {"[resetPassword] Rate limit check failed: UNAVAILABLE"}
    /\ UNCHANGED <<now, otp_sessions, nextId, authUsers, timers, verified, failures, issued>>
    /\ UNCHANGED resetVars
    /\ UNCHANGED users

\* checkResetRateLimit returns: 429, or getUserByPhoneNumber is called
ReqRateDecide(i) ==
    /\ inst[i].pc = "r_rate_decide"
    /\ IF RateLimited(inst[i].size)
       THEN /\ Respond(i, [Res(429, "RATE_LIMIT_EXCEEDED") EXCEPT
                              !.retryAfter = WaitMinutes(inst[i].oldest, now) * 60])
            /\ logs' = {"[resetPassword] Rate limit exceeded for "
                        \o maskPhoneNumber(inst[i].phone)}
       ELSE /\ Step(i, [inst[i] EXCEPT !.pc = "r_user_lookup"])
            /\ logs' = {}
    /\ UNCHANGED <<now, otp_sessions, nextId, authUsers, timers, verified, failures, issued>>
    /\ UNCHANGED resetVars
    /\ UNCHANGED users

\* getUserByPhoneNumber returns: an unknown phone gets the generic 200 response;
\* for a known one the code is generated and bcrypt.hash is called
ReqUserLookup(i, n) ==
    /\ inst[i].pc = "r_user_lookup"
    /\ IF inst[i].phone \notin authUsers
       THEN /\ Respond(i, [Res(200, "") EXCEPT !.success = TRUE])
            /\ logs' = {"[resetPassword] User not found: " \o maskPhoneNumber(inst[i].phone)}
       ELSE /\ Step(i, [inst[i] EXCEPT !.pc = "r_hash", !.otp = generateSecureOTP(n)])
            /\ logs' = {}
    /\ UNCHANGED <<now, otp_sessions, nextId, authUsers, timers, verified, failures, issued>>
    /\ UNCHANGED resetVars
    /\ UNCHANGED users

\* the hash is ready: doc() picks the id, sessionData is built and sendWhatsAppOTP
\* is called; it returns failure, which ends the request with 500, or success,
\* after which set() is called
ReqHash(i, delivered) ==
    /\ inst[i].pc = "r_hash"
    /\ IF ~delivered
       THEN Respond(i, Res(500, TwilioError))
       ELSE Step(i, [inst[i] EXCEPT
                        !.pc = "r_set",
                        !.sessionId = nextId,
                        !.sessionData = NewResetSession(inst[i].phone, inst[i].otp, now)])
    /\ nextId' = nextId + 1
    /\ logs' = TwilioLogs(inst[i].phone, delivered)
               \cup (IF delivered THEN {}
                     ELSE {"[resetPassword] Failed to send OTP to "
                           \o maskPhoneNumber(inst[i].phone)})
    /\ UNCHANGED <<now, otp_sessions, authUsers, timers, verified, failures, issued>>
    /\ UNCHANGED resetVars
    /\ UNCHANGED users

\* sessionRef.set(sessionData) is applied and the 200 response is sent
ReqSet(i) ==
    /\ inst[i].pc = "r_set"
    /\ password_reset_sessions' =
          password_reset_sessions @@ (inst[i].sessionId :> inst[i].sessionData)
    /\ Respond(i, [Res(200, "") EXCEPT !.success = TRUE, !.sessionId = inst[i].sessionId,
                                      !.messageSid = MessageSid, !.expiresIn = 300,
                                      !.testOtp = inst[i].otp])
    /\ logs' = {"[resetPassword] OTP sent for password reset: "
                \o maskPhoneNumber(inst[i].phone),
                "[resetPassword] TEST MODE - OTP: " \o inst[i].otp}
    /\ UNCHANGED <<now, otp_sessions, nextId, authUsers, timers, verified, failures, issued>>
    /\ UNCHANGED <<resetTimers, passwords>>
    /\ UNCHANGED users

----------------------------------------------------------------------------
(* resetPassword, action reset_password *)

\* parseInt(process.env.PASSWORD_MIN_LENGTH || '6')
PASSWORD_MIN_LENGTH == 6

\* validatePassword(password).valid
validatePassword(password) == password # "" /\ Len(password) >= PASSWORD_MIN_LENGTH

\* a read that falls back to the document of otp_sessions with that id
GetResetDocAny(sid) ==
    IF sid \in DOMAIN password_reset_sessions THEN password_reset_sessions[sid]
    ELSE GetDoc(sid)

\* sessionRef.get() on password_reset_sessions
GetResetDoc(sid) ==
    IF sid \in DOMAIN password_reset_sessions THEN password_reset_sessions[sid] ELSE NoDoc

\* sessionRef.delete() on password_reset_sessions
DeleteResetDoc(sid) ==
    [s \in DOMAIN password_reset_sessions \ {sid} |-> password_reset_sessions[s]]

\* sessionRef.update() on password_reset_sessions throws when the document is missing
CanUpdateReset(sid) == sid \in DOMAIN password_reset_sessions

\* a gate that looks at the expiry before the used flag
ResetGateExpiryFirst(sessionDoc, phone, t) ==
    IF ~sessionDoc.exists THEN "SESSION_NOT_FOUND"
    ELSE IF sessionDoc.phone # phone THEN "PHONE_MISMATCH"
    ELSE IF t > sessionDoc.expiresAt THEN "EXPIRED_OTP"
    ELSE IF sessionDoc.used THEN "OTP_ALREADY_USED"
    ELSE IF sessionDoc.attempts >= MAX_ATTEMPTS THEN "MAX_ATTEMPTS_EXCEEDED"
    ELSE "COMPARE"

\* the checks of handleResetPassword between the read of the session and
\* bcrypt.compare, in the code's order
ResetGate(sessionDoc, phone, t) ==
    IF ~sessionDoc.exists THEN "SESSION_NOT_FOUND"
    ELSE IF sessionDoc.phone # phone THEN "PHONE_MISMATCH"
    ELSE IF sessionDoc.used THEN "OTP_ALREADY_USED"
    ELSE IF t > sessionDoc.expiresAt THEN "EXPIRED_OTP"
    ELSE IF sessionDoc.attempts >= MAX_ATTEMPTS THEN "MAX_ATTEMPTS_EXCEEDED"
    ELSE "COMPARE"

\* request received: the presence of the four fields and the password length are
\* checked, then sessionRef.get() is called
ResetStart(i, sessionId, otp, phone, newPassword) ==
    /\ Free(i)
    /\ LET req == [Idle EXCEPT !.fn = "reset_password", !.sessionId = sessionId,
                               !.otp = otp, !.phone = phone,
                               !.newPassword = newPassword] IN
       IF sessionId = 0 \/ otp = "" \/ phone = "" \/ newPassword = ""
       THEN /\ Reject(req, Res(400, "MISSING_REQUIRED_FIELDS"))
            /\ logs' = {}
       ELSE IF ~validatePassword(newPassword)
       THEN /\ Reject(req, Res(400, "WEAK_PASSWORD"))
            /\ logs' = {}
       ELSE /\ Step(i, [req EXCEPT !.pc = "p_get"])
            /\ logs' = {"[resetPassword] Verifying OTP for password reset: "
                        \o maskPhoneNumber(phone)}
    /\ UNCHANGED <<now, otp_sessions, nextId, authUsers, timers, verified, failures, issued>>
    /\ UNCHANGED resetVars
    /\ UNCHANGED users

\* sessionRef.get() reads the store and its continuation runs: the checks, then a
\* response, a delete, or bcrypt.compare, after which update({attempts}) or
\* getUserByPhoneNumber is called
ResetRead(i) ==
    /\ inst[i].pc = "p_get"
    /\ LET sessionData == GetResetDoc(inst[i].sessionId)
           gate == ResetGate(sessionData, inst[i].phone, now)
           early == [inst[i] EXCEPT !.sessionData = sessionData]
           me == [early EXCEPT !.now = now] IN
       /\ IF gate \in {"SESSION_NOT_FOUND", "PHONE_MISMATCH", "OTP_ALREADY_USED"}
          THEN RespondAs(i, early, Res(IF gate = "SESSION_NOT_FOUND" THEN 404 ELSE 403, gate))
          ELSE IF gate = "EXPIRED_OTP"
          THEN Step(i, [me EXCEPT !.pc = "p_delete_expired"])
          ELSE IF gate = "MAX_ATTEMPTS_EXCEEDED"
          THEN Step(i, [me EXCEPT !.pc = "p_delete_locked"])
          ELSE IF ~bcryptCompare(inst[i].otp, sessionData.otpHash)
          THEN Step(i, [me EXCEPT !.pc = "p_update_attempts",
                                  !.newAttempts = sessionData.attempts + 1])
          ELSE Step(i, [me EXCEPT !.pc = "p_get_user"])
       /\ logs' = IF gate = "SESSION_NOT_FOUND"
                  THEN {"[resetPassword] Session not found: " \o ToString(inst[i].sessionId)}
                  ELSE IF gate = "PHONE_MISMATCH"
                  THEN {"[resetPassword] Phone mismatch for session "
                        \o ToString(inst[i].sessionId)}
                  ELSE {}
    /\ UNCHANGED <<now, otp_sessions, nextId, authUsers, timers, verified, failures, issued>>
    /\ UNCHANGED resetVars
    /\ UNCHANGED users

\* sessionRef.delete() of an expired or locked session is applied; the 403 is sent
ResetDelete(i) ==
    /\ inst[i].pc \in {"p_delete_expired", "p_delete_locked"}
    /\ password_reset_sessions' = DeleteResetDoc(inst[i].sessionId)
    /\ Respond(i, Res(403, IF inst[i].pc = "p_delete_expired"
                           THEN "EXPIRED_OTP" ELSE "MAX_ATTEMPTS_EXCEEDED"))
    /\ logs' = {}
    /\ UNCHANGED <<now, otp_sessions, nextId, authUsers, timers, verified, failures, issued>>
    /\ UNCHANGED <<resetTimers, passwords>>
    /\ UNCHANGED users

\* update({attempts: newAttempts}) is applied and the INVALID_OTP response is sent,
\* or it throws on a missing document and the catch of the export answers 500
ResetUpdateAttempts(i) ==
    /\ inst[i].pc = "p_update_attempts"
    /\ IF CanUpdateReset(inst[i].sessionId)
       THEN /\ password_reset_sessions' =
                  [password_reset_sessions EXCEPT
                      ![inst[i].sessionId].attempts = inst[i].newAttempts]
            /\ Respond(i, [Res(403, "INVALID_OTP") EXCEPT
                              !.attemptsRemaining = MAX_ATTEMPTS - inst[i].newAttempts])
            /\ logs' = {}
       ELSE /\ Respond(i, Res(500, "INTERNAL_ERROR"))
            /\ logs' = {UnexpectedError("resetPassword", "No document to update")}
            /\ UNCHANGED password_reset_sessions
    /\ UNCHANGED <<now, otp_sessions, nextId, authUsers, timers, verified, failures, issued>>
    /\ UNCHANGED <<resetTimers, passwords>>
    /\ UNCHANGED users

\* getUserByPhoneNumber returns the user and updateUser is called, or it throws
\* auth/user-not-found: 404
ResetGetUser(i) ==
    /\ inst[i].pc = "p_get_user"
    /\ IF inst[i].phone \in authUsers
       THEN /\ Step(i, [inst[i] EXCEPT !.pc = "p_update_user"])
            /\ logs' = {}
       ELSE /\ Respond(i, Res(404, "USER_NOT_FOUND"))
            /\ logs' = {"[resetPassword] Error updating password: no user record"}
    /\ UNCHANGED <<now, otp_sessions, nextId, authUsers, timers, verified, failures, issued>>
    /\ UNCHANGED resetVars
    /\ UNCHANGED users

\* updateUser(uid, {password: newPassword}) is applied and update({used: true})
\* is called
ResetUpdateUser(i) ==
    /\ inst[i].pc = "p_update_user"
    /\ passwords' = [p \in DOMAIN passwords \cup {inst[i].phone} |->
                        IF p = inst[i].phone THEN inst[i].newPassword ELSE passwords[p]]
    /\ Step(i, [inst[i] EXCEPT !.pc = "p_update_used"])
    /\ logs' = {}
    /\ UNCHANGED <<now, otp_sessions, nextId, authUsers, timers, verified, failures, issued>>
    /\ UNCHANGED <<password_reset_sessions, resetTimers>>
    /\ UNCHANGED users

\* update({used: true}) is applied, the delayed delete is scheduled and the 200
\* response is sent; or the update throws on a missing document, the inner catch
\* rethrows and the catch of the export answers 500
ResetUpdateUsed(i) ==
    /\ inst[i].pc = "p_update_used"
    /\ IF CanUpdateReset(inst[i].sessionId)
       THEN /\ password_reset_sessions' =
                  [password_reset_sessions EXCEPT ![inst[i].sessionId].used = TRUE]
            /\ resetTimers' = resetTimers
                                 \cup {[sid |-> inst[i].sessionId, due |-> now + GRACE_MS]}
            /\ Respond(i, [Res(200, "") EXCEPT !.success = TRUE])
            /\ logs' = {"[resetPassword] Password reset successfully for "
                        \o maskPhoneNumber(inst[i].phone)}
       ELSE /\ Respond(i, Res(500, "INTERNAL_ERROR"))
            /\ logs' = {"[resetPassword] Error updating password: No document to update",
                        UnexpectedError("resetPassword", "No document to update")}
            /\ UNCHANGED <<password_reset_sessions, resetTimers>>
    /\ UNCHANGED <<now, otp_sessions, nextId, authUsers, timers, verified, failures, issued>>
    /\ UNCHANGED passwords
    /\ UNCHANGED users

\* the setTimeout callback of handleResetPassword runs once its delay has passed
ResetTimerFire(t) ==
    /\ t \in resetTimers
    /\ now >= t.due
    /\ password_reset_sessions' = DeleteResetDoc(t.sid)
    /\ resetTimers' = resetTimers \ {t}
    /\ out' = NoOut
    /\ logs' = {}
    /\ UNCHANGED <<now, otp_sessions, nextId, authUsers, timers, inst, verified, failures, issued>>
    /\ UNCHANGED passwords
    /\ UNCHANGED users

----------------------------------------------------------------------------
(* Specifications *)

\* request bodies of sendOtp: a valid phone, a malformed one, none
SendPhones == {PhoneA, BadPhone, ""}

\* request bodies of verifyOtp: every code and phone against every session id that
\* may exist, one id that never exists, one body for each validation failure, and
\* one with a phone that is not E.164
VerBodies(maxSessions) ==
    [sessionId : 1..maxSessions, otp : Otps, phone : Phones]
    \cup {[sessionId |-> maxSessions + 1, otp |-> ToString(OTP_MIN), phone |-> PhoneA],
          [sessionId |-> 0, otp |-> ToString(OTP_MIN), phone |-> PhoneA],
          [sessionId |-> 1, otp |-> "", phone |-> PhoneA],
          [sessionId |-> 1, otp |-> ToString(OTP_MIN), phone |-> ""],
          [sessionId |-> 1, otp |-> BadOtp, phone |-> PhoneA],
          [sessionId |-> 1, otp |-> ToString(OTP_MIN), phone |-> BadPhone]}

\* the verification scenario: few sessions, the clock stepping by one TTL
Next ==
    \/ Tick(TTL_MS, MaxSteps * TTL_MS)
    \/ \E i \in Instances, phone \in SendPhones : SendStart(i, phone, MaxSessions)
    \/ \E i \in Instances : SendRateQuery(i)
    \/ \E i \in Instances, n \in RandomInts : SendRateDecide(i, n)
    \/ \E i \in Instances, delivered \in BOOLEAN : SendHash(i, delivered)
    \/ \E i \in Instances : SendSet(i)
    \/ \E i \in Instances, body \in VerBodies(MaxSessions) :
          VerStart(i, body.sessionId, body.otp, body.phone)
    \/ \E i \in Instances : VerRead(i)
    \/ \E i \in Instances : VerDelete(i)
    \/ \E i \in Instances : VerUpdateAttempts(i)
    \/ \E i \in Instances : VerUpdateUsed(i)
    \/ \E i \in Instances : VerAuthLookup(i)
    \/ \E i \in Instances : VerCreateUser(i)
    \/ \E t \in timers : TimerFire(t)

Spec == Init /\ [][Next]_vars

\* the sequential scenario: every request is served by instance 1, so a request
\* starts only after the previous one has been answered
NextSeq ==
    \/ Tick(TTL_MS, MaxSteps * TTL_MS)
    \/ \E phone \in SendPhones : SendStart(1, phone, MaxSessions)
    \/ SendRateQuery(1)
    \/ \E n \in RandomInts : SendRateDecide(1, n)
    \/ \E delivered \in BOOLEAN : SendHash(1, delivered)
    \/ SendSet(1)
    \/ \E body \in VerBodies(MaxSessions) :
          VerStart(1, body.sessionId, body.otp, body.phone)
    \/ VerRead(1)
    \/ VerDelete(1)
    \/ VerUpdateAttempts(1)
    \/ VerUpdateUsed(1)
    \/ VerAuthLookup(1)
    \/ VerCreateUser(1)
    \/ \E t \in timers : TimerFire(t)

SpecSeq == Init /\ [][NextSeq]_vars

\* request bodies of verifyOtp in the issuance scenario: the right code and the
\* bound phone for the first session issued
RateVerBodies == {[sessionId |-> 1, otp |-> ToString(OTP_MIN), phone |-> PhoneA]}

\* the issuance scenario: one phone asks for codes again and again, every code is
\* delivered, the clock runs until a rate-limit window has passed, and the phone
\* verifies the first code it got (which never sends a wrong code, so that
\* update({attempts}) is not reached)
NextRate ==
    \/ Tick(TTL_MS, MaxStepsRate * TTL_MS)
    \/ \E i \in Instances : SendStart(i, PhoneA, MaxSessionsRate)
    \/ \E i \in Instances : SendRateQuery(i)
    \/ \E i \in Instances, n \in RandomInts : SendRateDecide(i, n)
    \/ \E i \in Instances : SendHash(i, TRUE)
    \/ \E i \in Instances : SendSet(i)
    \/ \E i \in Instances, body \in RateVerBodies :
          VerStart(i, body.sessionId, body.otp, body.phone)
    \/ \E i \in Instances : VerRead(i)
    \/ \E i \in Instances : VerDelete(i)
    \/ \E i \in Instances : VerUpdateUsed(i)
    \/ \E i \in Instances : VerAuthLookup(i)
    \/ \E i \in Instances : VerCreateUser(i)
    \/ \E t \in timers : TimerFire(t)

SpecRate == Init /\ [][NextRate]_vars

\* instants the clock is read at in the issuance-only scenario: a minute after
\* the start, and on both sides of the end of the rate-limit window that opens
\* at the start
IssueInstants == {MINUTE_MS, WINDOW_MS - 1, WINDOW_MS}

\* the issuance-only scenario: sendOtp and resetPassword request_otp requests,
\* one at a time, with rate-limit queries that may throw and deliveries that may
\* fail
NextIssue ==
    \/ Advance(IssueInstants)
    \/ AuthSignUp(PhoneA)
    \/ \E phone \in SendPhones : SendStart(1, phone, MaxSessionsRate)
    \/ SendRateQuery(1)
    \/ \E n \in RandomInts : SendRateQueryFails(1, n)
    \/ \E n \in RandomInts : SendRateDecide(1, n)
    \/ \E delivered \in BOOLEAN : SendHash(1, delivered)
    \/ SendSet(1)
    \/ ResetInvalidAction(1)
    \/ \E phone \in SendPhones : ReqStart(1, phone, MaxSessionsRate)
    \/ ReqRateQuery(1)
    \/ ReqRateQueryFails(1)
    \/ ReqRateDecide(1)
    \/ \E n \in RandomInts : ReqUserLookup(1, n)
    \/ \E delivered \in BOOLEAN : ReqHash(1, delivered)
    \/ ReqSet(1)

SpecIssue == Init /\ [][NextIssue]_vars

\* the retry scenario: one phone asks for codes again and again on any instance,
\* every code is delivered, and the clock is read at the instants of the
\* issuance-only scenario
NextWait ==
    \/ Advance(IssueInstants)
    \/ \E i \in Instances : SendStart(i, PhoneA, MaxSessionsWait)
    \/ \E i \in Instances : SendRateQuery(i)
    \/ \E i \in Instances, n \in RandomInts : SendRateDecide(i, n)
    \/ \E i \in Instances : SendHash(i, TRUE)
    \/ \E i \in Instances : SendSet(i)

SpecWait == Init /\ [][NextWait]_vars

\* the values of the body's source field: absent, 'sms', 'whatsapp'
Sources == {"", "sms", "whatsapp"}

\* the channel scenario: sendOtp requests with a source, one at a time, at one
\* instant, with deliveries that may fail
NextSource ==
    \/ \E phone \in SendPhones, source \in Sources :
          SendStartSource(1, phone, source, MaxSessionsRate)
    \/ SendRateQuery(1)
    \/ \E n \in RandomInts : SendRateDecide(1, n)
    \/ \E delivered \in BOOLEAN : SendHash(1, delivered)
    \/ SendSet(1)

SpecSource == Init /\ [][NextSource]_vars

----------------------------------------------------------------------------
(* createUserProfile *)

\* the uid Firebase Auth gave the user record of a phone
UidOf(phone) == "uid" \o phone

Uids == {UidOf(phone) : phone \in Phones}

\* admin.auth().getUser(uid) resolves
AuthHasUid(uid) == \E phone \in authUsers : UidOf(phone) = uid

\* phoneNumberExists when its query succeeds: some document of users with
\* another id holds the phone
phoneNumberExists(phone, currentUid) ==
    \E u \in DOMAIN users : users[u].phone = phone /\ u # currentUid

\* sanitizedData, reduced to the fields the duplicate check reads
NewProfile(uid, phone) == [exists |-> TRUE, uid |-> uid, phone |-> phone]

\* request received with a body whose name, disco, band and location are valid:
\* validateUserProfile, then getUser is called
ProfStart(i, uid, phone) ==
    /\ Free(i)
    /\ LET req == [Idle EXCEPT !.fn = "createUserProfile", !.uid = uid, !.phone = phone] IN
       IF uid = "" \/ ~isValidPhoneNumber(phone)
       THEN Reject(req, Res(400, "VALIDATION_ERROR"))
       ELSE Step(i, [req EXCEPT !.pc = "u_get_user"])
    /\ logs' = {"[createUserProfile] Creating profile for " \o maskPhoneNumber(phone)
                 \o ". UID: " \o uid}
               \cup (IF uid = "" \/ ~isValidPhoneNumber(phone)
                     THEN {"[createUserProfile] Validation failed for "
                           \o maskPhoneNumber(phone)}
                     ELSE {})
    /\ UNCHANGED <<now, otp_sessions, nextId, authUsers, timers, verified, failures, issued>>
    /\ UNCHANGED resetVars
    /\ UNCHANGED users

\* getUser returns: 404 if Firebase Auth has no such uid, otherwise the query of
\* phoneNumberExists is sent
ProfGetUser(i) ==
    /\ inst[i].pc = "u_get_user"
    /\ IF ~AuthHasUid(inst[i].uid)
       THEN Respond(i, Res(404, "USER_NOT_FOUND"))
       ELSE Step(i, [inst[i] EXCEPT !.pc = "u_phone_query"])
    /\ logs' = IF ~AuthHasUid(inst[i].uid)
               THEN {"[createUserProfile] Firebase Auth user not found: " \o inst[i].uid}
               ELSE {}
    /\ UNCHANGED <<now, otp_sessions, nextId, authUsers, timers, verified, failures, issued>>
    /\ UNCHANGED resetVars
    /\ UNCHANGED users

\* the query returns: 409 if the phone is held under another uid, otherwise
\* users/{uid}.set(sanitizedData) is called
ProfPhoneQuery(i) ==
    /\ inst[i].pc = "u_phone_query"
    /\ IF phoneNumberExists(inst[i].phone, inst[i].uid)
       THEN Respond(i, Res(409, "DUPLICATE_PHONE"))
       ELSE Step(i, [inst[i] EXCEPT !.pc = "u_set"])
    /\ logs' = IF phoneNumberExists(inst[i].phone, inst[i].uid)
               THEN {"[createUserProfile] Duplicate phone number: "
                     \o maskPhoneNumber(inst[i].phone)}
               ELSE {}
    /\ UNCHANGED <<now, otp_sessions, nextId, authUsers, timers, verified, failures, issued>>
    /\ UNCHANGED resetVars
    /\ UNCHANGED users

\* the query throws: phoneNumberExists logs, returns false, and set is called
ProfPhoneQueryFails(i) ==
    /\ inst[i].pc = "u_phone_query"
    /\ Step(i, [inst[i] EXCEPT !.pc = "u_set"])
    /\ logs' = {"[createUserProfile] Error checking phone number: unavailable"}
    /\ UNCHANGED <<now, otp_sessions, nextId, authUsers, timers, verified, failures, issued>>
    /\ UNCHANGED resetVars
    /\ UNCHANGED users

\* set is applied (it creates or overwrites users/{uid}) and 201 is sent
ProfSet(i) ==
    /\ inst[i].pc = "u_set"
    /\ users' = [u \in DOMAIN users \cup {inst[i].uid} |->
                    IF u = inst[i].uid THEN NewProfile(inst[i].uid, inst[i].phone)
                    ELSE users[u]]
    /\ Respond(i, [Res(201, "") EXCEPT !.success = TRUE])
    /\ logs' = {"[createUserProfile] Profile created successfully for "
                 \o maskPhoneNumber(inst[i].phone) \o ". UID: " \o inst[i].uid}
    /\ UNCHANGED <<now, otp_sessions, nextId, authUsers, timers, verified, failures, issued>>
    /\ UNCHANGED resetVars

\* the profile scenario: accounts appear in Firebase Auth and createUserProfile
\* requests, with any uid and phone, run on any instance; the duplicate-check
\* query may throw
NextProfile ==
    \/ \E phone \in Phones : AuthSignUp(phone)
    \/ \E i \in Instances, uid \in Uids \cup {""}, phone \in Phones \cup {BadPhone} :
          ProfStart(i, uid, phone)
    \/ \E i \in Instances : ProfGetUser(i)
    \/ \E i \in Instances : ProfPhoneQuery(i)
    \/ \E i \in Instances : ProfPhoneQueryFails(i)
    \/ \E i \in Instances : ProfSet(i)

SpecProfile == Init /\ [][NextProfile]_vars

\* request bodies of verifyOtp in the two-session scenario: each code with the
\* bound phone against each session that may exist
TwoVerBodies == [sessionId : 1..MaxSessionsTwo, otp : Otps, phone : {PhoneA}]

\* request bodies of reset_password in the two-session scenario
TwoResetBodies ==
    [sessionId : 1..MaxSessionsTwo, otp : Otps, phone : {PhoneA}, newPassword : {"secret"}]

\* the two-session scenario: one phone holds up to two sessions, of either
\* collection, and verifies against either, one request at a time, the clock
\* stepping by one TTL
NextTwo ==
    \/ Tick(TTL_MS, MaxSteps * TTL_MS)
    \/ SendStart(1, PhoneA, MaxSessionsTwo)
    \/ SendRateQuery(1)
    \/ \E n \in RandomInts : SendRateDecide(1, n)
    \/ SendHash(1, TRUE)
    \/ SendSet(1)
    \/ \E body \in TwoVerBodies : VerStart(1, body.sessionId, body.otp, body.phone)
    \/ VerRead(1)
    \/ VerDelete(1)
    \/ VerUpdateAttempts(1)
    \/ VerUpdateUsed(1)
    \/ VerAuthLookup(1)
    \/ VerCreateUser(1)
    \/ \E t \in timers : TimerFire(t)
    \/ AuthSignUp(PhoneA)
    \/ ReqStart(1, PhoneA, MaxSessionsTwo)
    \/ ReqRateQuery(1)
    \/ ReqRateDecide(1)
    \/ \E n \in RandomInts : ReqUserLookup(1, n)
    \/ ReqHash(1, TRUE)
    \/ ReqSet(1)
    \/ \E body \in TwoResetBodies :
          ResetStart(1, body.sessionId, body.otp, body.phone, body.newPassword)
    \/ ResetRead(1)
    \/ ResetDelete(1)
    \/ ResetUpdateAttempts(1)
    \/ ResetGetUser(1)
    \/ ResetUpdateUser(1)
    \/ ResetUpdateUsed(1)
    \/ \E t \in resetTimers : ResetTimerFire(t)

SpecTwo == Init /\ [][NextTwo]_vars

\* positions at which a request awaits a Session Store or Identity Provider call
\* inside the try block of its handler (the rate-limit queries have a catch of
\* their own)
AwaitingCall ==
    {"set", "get", "delete_expired", "delete_locked", "update_attempts", "update_used",
     "auth_lookup", "create_user", "r_user_lookup", "r_set", "p_get", "p_delete_expired",
     "p_delete_locked", "p_update_attempts", "p_get_user", "p_update_user",
     "p_update_used"}

\* the name the export logs under
ExportName(fn) == IF fn \in {"request_otp", "reset_password"} THEN "resetPassword" ELSE fn

\* a handler whose catch answers with the code of the check it was in
CallFailsAsLifecycle(i) ==
    /\ inst[i].pc \in AwaitingCall
    /\ Respond(i, Res(403, "EXPIRED_OTP"))
    /\ logs' = {UnexpectedError(ExportName(inst[i].fn), "UNAVAILABLE")}
    /\ UNCHANGED <<now, otp_sessions, nextId, authUsers, timers, verified, failures, issued>>
    /\ UNCHANGED resetVars
    /\ UNCHANGED users

\* the awaited call throws (the backend is unavailable): the catch of the export
\* logs the error and answers 500 INTERNAL_ERROR
CallFails(i) ==
    /\ inst[i].pc \in AwaitingCall
    /\ Respond(i, Res(500, "INTERNAL_ERROR"))
    /\ logs' = {UnexpectedError(ExportName(inst[i].fn), "UNAVAILABLE")}
    /\ UNCHANGED <<now, otp_sessions, nextId, authUsers, timers, verified, failures, issued>>
    /\ UNCHANGED resetVars
    /\ UNCHANGED users

\* request bodies of verifyOtp in the failure scenario
FaultVerBodies == [sessionId : 1..MaxSessions, otp : Otps, phone : {PhoneA}]

\* request bodies of reset_password in the failure scenario
FaultResetBodies ==
    [sessionId : 1..MaxSessions, otp : Otps, phone : {PhoneA}, newPassword : {"secret"}]

\* the failure scenario: requests of the three functions served one at a time,
\* any awaited backend call of which may throw
NextFault ==
    \/ Tick(TTL_MS, MaxSteps * TTL_MS)
    \/ AuthSignUp(PhoneA)
    \/ SendStart(1, PhoneA, MaxSessions)
    \/ SendRateQuery(1)
    \/ \E n \in RandomInts : SendRateDecide(1, n)
    \/ SendHash(1, TRUE)
    \/ SendSet(1)
    \/ \E body \in FaultVerBodies : VerStart(1, body.sessionId, body.otp, body.phone)
    \/ VerRead(1)
    \/ VerDelete(1)
    \/ VerUpdateAttempts(1)
    \/ VerUpdateUsed(1)
    \/ VerAuthLookup(1)
    \/ VerCreateUser(1)
    \/ \E t \in timers : TimerFire(t)
    \/ ReqStart(1, PhoneA, MaxSessions)
    \/ ReqRateQuery(1)
    \/ ReqRateDecide(1)
    \/ \E n \in RandomInts : ReqUserLookup(1, n)
    \/ ReqHash(1, TRUE)
    \/ ReqSet(1)
    \/ \E body \in FaultResetBodies :
          ResetStart(1, body.sessionId, body.otp, body.phone, body.newPassword)
    \/ ResetRead(1)
    \/ ResetDelete(1)
    \/ ResetUpdateAttempts(1)
    \/ ResetGetUser(1)
    \/ ResetUpdateUser(1)
    \/ ResetUpdateUsed(1)
    \/ \E t \in resetTimers : ResetTimerFire(t)
    \/ CallFails(1)

SpecFault == Init /\ [][NextFault]_vars

\* instants the clock is read at in the clean-up scenario: around the grace delay
\* of a success at the start, and around the expiry of a session issued at the
\* start
GraceInstants ==
    {GRACE_MS - 1, GRACE_MS, 2 * GRACE_MS, TTL_MS, TTL_MS + 1, TTL_MS + 1 + GRACE_MS}

\* the same, with the instants at which a pending setTimeout callback is due
GraceClock == GraceInstants \cup {t.due : t \in timers}

\* request bodies of verifyOtp in the clean-up scenario: each code with the bound
\* phone for the session that may exist
GraceVerBodies == [sessionId : 1..MaxSessions, otp : Otps, phone : {PhoneA}]

\* the clean-up scenario: requests served one at a time, with the clock read at
\* the instants above while a request is in flight or between requests
NextGrace ==
    \/ Advance(GraceClock)
    \/ SendStart(1, PhoneA, MaxSessions)
    \/ SendRateQuery(1)
    \/ \E n \in RandomInts : SendRateDecide(1, n)
    \/ \E delivered \in BOOLEAN : SendHash(1, delivered)
    \/ SendSet(1)
    \/ \E body \in GraceVerBodies : VerStart(1, body.sessionId, body.otp, body.phone)
    \/ VerRead(1)
    \/ VerDelete(1)
    \/ VerUpdateAttempts(1)
    \/ VerUpdateUsed(1)
    \/ VerAuthLookup(1)
    \/ VerCreateUser(1)
    \/ \E t \in timers : TimerFire(t)

\* what the runtime guarantees: time passes however often requests arrive, an
\* awaited call of a request in flight returns, and a timer that is due runs; no
\* request has to arrive
FairGrace ==
    /\ SF_vars(Advance(GraceClock))
    /\ WF_vars(SendRateQuery(1))
    /\ WF_vars(\E n \in RandomInts : SendRateDecide(1, n))
    /\ WF_vars(\E delivered \in BOOLEAN : SendHash(1, delivered))
    /\ WF_vars(SendSet(1))
    /\ WF_vars(VerRead(1))
    /\ WF_vars(VerDelete(1))
    /\ WF_vars(VerUpdateAttempts(1))
    /\ WF_vars(VerUpdateUsed(1))
    /\ WF_vars(VerAuthLookup(1))
    /\ WF_vars(VerCreateUser(1))
    /\ WF_vars(\E t \in timers : TimerFire(t))

SpecGrace == Init /\ [][NextGrace]_vars /\ FairGrace

\* request bodies of reset_password: every code, well-formed or not, with every
\* phone against the session id that may exist, an id that never exists, and
\* one body for each validation failure
ResetBodies ==
    [sessionId : {1}, otp : Otps \cup {BadOtp}, phone : Phones, newPassword : {"secret"}]
    \cup {[sessionId |-> MaxSessions + 1, otp |-> ToString(OTP_MIN), phone |-> PhoneA,
           newPassword |-> "secret"],
          [sessionId |-> 1, otp |-> ToString(OTP_MIN), phone |-> BadPhone,
           newPassword |-> "secret"],
          [sessionId |-> 1, otp |-> ToString(OTP_MIN), phone |-> PhoneA,
           newPassword |-> "short"],
          [sessionId |-> 1, otp |-> ToString(OTP_MIN), phone |-> PhoneA,
           newPassword |-> ""],
          [sessionId |-> 0, otp |-> ToString(OTP_MIN), phone |-> PhoneA,
           newPassword |-> "secret"]}

\* the password-reset scenario: a registered phone asks for a reset code and
\* reset_password requests arrive on any instance, the clock stepping by one TTL
NextReset ==
    \/ Tick(TTL_MS, MaxSteps * TTL_MS)
    \/ AuthSignUp(PhoneA)
    \/ \E i \in Instances : ReqStart(i, PhoneA, MaxSessions)
    \/ \E i \in Instances : ReqRateQuery(i)
    \/ \E i \in Instances : ReqRateDecide(i)
    \/ \E i \in Instances, n \in RandomInts : ReqUserLookup(i, n)
    \/ \E i \in Instances : ReqHash(i, TRUE)
    \/ \E i \in Instances : ReqSet(i)
    \/ \E i \in Instances, body \in ResetBodies :
          ResetStart(i, body.sessionId, body.otp, body.phone, body.newPassword)
    \/ \E i \in Instances : ResetRead(i)
    \/ \E i \in Instances : ResetDelete(i)
    \/ \E i \in Instances : ResetUpdateAttempts(i)
    \/ \E i \in Instances : ResetGetUser(i)
    \/ \E i \in Instances : ResetUpdateUser(i)
    \/ \E i \in Instances : ResetUpdateUsed(i)
    \/ \E t \in resetTimers : ResetTimerFire(t)

SpecReset == Init /\ [][NextReset]_vars

\* request bodies of verifyOtp in the deletion scenario: the right and a wrong
\* code against the first session, the right code against the second
GoneVerBodies ==
    [sessionId : {1}, otp : Otps, phone : {PhoneA}]
    \cup {[sessionId |-> 2, otp |-> ToString(OTP_MIN), phone |-> PhoneA]}

\* the deletion scenario: one phone is issued up to two sessions, one issuance at
\* a time, and verifyOtp requests for them run on any instance; the clock is read
\* at 0 and when the delay of a deletion scheduled at 0 has passed
NextGone ==
    \/ Advance({GRACE_MS})
    \/ SendStart(1, PhoneA, MaxSessionsTwo)
    \/ SendRateQuery(1)
    \/ \E n \in RandomInts : SendRateDecide(1, n)
    \/ SendHash(1, TRUE)
    \/ SendSet(1)
    \/ \E i \in Instances, body \in GoneVerBodies :
          VerStart(i, body.sessionId, body.otp, body.phone)
    \/ \E i \in Instances : VerRead(i)
    \/ \E i \in Instances : VerDelete(i)
    \/ \E i \in Instances : VerUpdateAttempts(i)
    \/ \E i \in Instances : VerUpdateUsed(i)
    \/ \E i \in Instances : VerAuthLookup(i)
    \/ \E i \in Instances : VerCreateUser(i)
    \/ \E t \in timers : TimerFire(t)

SpecGone == Init /\ [][NextGone]_vars

----------------------------------------------------------------------------
(* Vocabulary of the properties *)

\* the response just sent answers a verifyOtp request that passed validation;
\* out.req then holds the request with the session as it read it
VerifyAnswered == out.req.fn = "verifyOtp" /\ out.req.pc # "idle"

\* the outcome the ordered rules prescribe for a request, from the session as
\* read, the request's phone and code, and the time of the evaluation
Rule(sessionDoc, phone, otp, t) ==
    IF ~sessionDoc.exists THEN "SESSION_NOT_FOUND"
    ELSE IF sessionDoc.phone # phone THEN "PHONE_MISMATCH"
    ELSE IF sessionDoc.used THEN "OTP_ALREADY_USED"
    ELSE IF t > sessionDoc.expiresAt THEN "EXPIRED_OTP"
    ELSE IF sessionDoc.attempts >= 5 THEN "MAX_ATTEMPTS_EXCEEDED"
    ELSE IF sessionDoc.otpHash # bcryptHash(otp) THEN "INVALID_OTP"
    ELSE "SUCCESS"

RuleOf(q) == Rule(q.sessionData, q.phone, q.otp, q.now)

Outcome(res) == IF res.success THEN "SUCCESS" ELSE res.code

\* positions a request reaches only after bcrypt.compare has run
Compared(q) == q.pc \in {"update_attempts", "update_used", "auth_lookup", "create_user"}

\* the comparison is only ever run for a request that no earlier rule decides
ComparedOnlyWhenLive ==
    \A i \in Instances : Compared(inst[i]) => RuleOf(inst[i]) \in {"INVALID_OTP", "SUCCESS"}

\* the request just answered got 500 because its update found no document, or
\* because its createUser found the phone taken
WriteFailed ==
    /\ out.res.code = "INTERNAL_ERROR"
    /\ \/ /\ out.req.pc \in {"update_attempts", "update_used"}
          /\ out.req.sessionId \notin DOMAIN otp_sessions
       \/ out.req.pc = "create_user"

\* the request just answered named the phone its session was issued to
BoundPhone ==
    /\ out.req.sessionId \in DOMAIN issued
    /\ issued[out.req.sessionId].phone = out.req.phone

CorrectCode(q) == q.sessionId \in DOMAIN issued /\ issued[q.sessionId].otpHash = bcryptHash(q.otp)

----------------------------------------------------------------------------
(* C1 *)

\* C1 as stated: the response of every verifyOtp request that passed validation is
\* the outcome of the first rule that matches the session it read, and the code
\* comparison is run only when none of the first five rules matches.
C1_AsStated ==
    /\ VerifyAnswered => Outcome(out.res) = RuleOf(out.req)
    /\ ComparedOnlyWhenLive

\* C1, amended: the first rule that matches the session as read decides the
\* response, except that a request the last two rules decide (INVALID_OTP, success)
\* answers INTERNAL_ERROR when the update it then issues finds the session deleted
\* or its createUser finds the phone taken; the code comparison is run only when
\* none of the first five rules matches.
C1_FirstMatchWins ==
    /\ VerifyAnswered =>
          \/ Outcome(out.res) = RuleOf(out.req)
          \/ RuleOf(out.req) \in {"INVALID_OTP", "SUCCESS"} /\ WriteFailed
    /\ ComparedOnlyWhenLive

\* a used session read after its expiry with the right code: three rules match, the first one answers
C1_Witness ==
    /\ VerifyAnswered
    /\ out.res.code = "OTP_ALREADY_USED"
    /\ now > out.req.sessionData.expiresAt
    /\ CorrectCode(out.req)

----------------------------------------------------------------------------
(* C2 *)

\* C2 as stated: a verifyOtp request that arrives after a success for its session
\* id and names the bound phone is answered OTP_ALREADY_USED.
C2_AsStated ==
    (VerifyAnswered /\ out.req.late /\ BoundPhone) => out.res.code = "OTP_ALREADY_USED"

\* C2, amended: a verifyOtp request that arrives after a success for its session
\* id never succeeds; naming the bound phone it is answered OTP_ALREADY_USED while
\* the session is still stored and SESSION_NOT_FOUND once it has been deleted (the
\* handler deletes it 5 s after the success); naming another phone it is answered
\* PHONE_MISMATCH or, after the deletion, SESSION_NOT_FOUND.
C2_NeverAgain ==
    (VerifyAnswered /\ out.req.late) =>
        /\ ~out.res.success
        /\ out.res.code = IF ~out.req.sessionData.exists THEN "SESSION_NOT_FOUND"
                          ELSE IF BoundPhone THEN "OTP_ALREADY_USED"
                          ELSE "PHONE_MISMATCH"

\* the right code and the bound phone, after a success and past the expiry
C2_Witness ==
    /\ VerifyAnswered /\ out.req.late /\ BoundPhone
    /\ CorrectCode(out.req)
    /\ out.req.sessionData.exists
    /\ now > out.req.sessionData.expiresAt
    /\ out.res.status = 403

----------------------------------------------------------------------------
(* C3 *)

\* C3 as stated: for each session id, update({used: true}) is applied once (never
\* to a session that is already used) and at most one verifyOtp request is
\* answered with success, under every interleaving.
C3_SingleUse ==
    [][/\ (out'.req.fn = "verifyOtp" /\ out'.res.success)
             => out'.req.sessionId \notin verified
       /\ \A i \in Instances :
             (inst[i].pc = "update_used" /\ inst'[i].pc = "auth_lookup")
                 => ~otp_sessions[inst[i].sessionId].used]_vars

----------------------------------------------------------------------------
(* C4 *)

\* the request just answered read a stored session bound to its phone and not used
ReadBoundUnused ==
    /\ VerifyAnswered
    /\ out.req.sessionData.exists
    /\ out.req.sessionData.phone = out.req.phone
    /\ ~out.req.sessionData.used

\* C4: a verifyOtp request that read a session with attempts = 5, bound to its
\* phone, not used and not expired, is answered MAX_ATTEMPTS_EXCEEDED whatever its
\* code, and once it is answered the session is no longer stored.
C4_LockedOut ==
    (/\ ReadBoundUnused
     /\ ~(out.req.now > out.req.sessionData.expiresAt)
     /\ out.req.sessionData.attempts = 5)
        => /\ out.res.code = "MAX_ATTEMPTS_EXCEEDED"
           /\ out.res.status = 403
           /\ out.req.sessionId \notin DOMAIN otp_sessions

\* the right code against a session at five attempts
C4_Witness ==
    /\ ReadBoundUnused
    /\ out.req.sessionData.attempts = 5
    /\ CorrectCode(out.req)
    /\ out.res.code = "MAX_ATTEMPTS_EXCEEDED"

----------------------------------------------------------------------------
(* C5 *)

\* C5: a verifyOtp request that read an unused session bound to its phone at a
\* time after expiresAt is answered EXPIRED_OTP, whatever its code and the
\* attempts value, and once it is answered the session is no longer stored; one
\* that read it at a time up to and including expiresAt is not answered EXPIRED_OTP.
C5_Expiry ==
    ReadBoundUnused =>
        IF out.req.now > out.req.sessionData.expiresAt
        THEN /\ out.res.code = "EXPIRED_OTP"
             /\ out.res.status = 403
             /\ out.req.sessionId \notin DOMAIN otp_sessions
        ELSE out.res.code # "EXPIRED_OTP"

\* the right code against an expired session at five attempts
C5_Witness ==
    /\ ReadBoundUnused
    /\ out.req.now > out.req.sessionData.expiresAt
    /\ out.req.sessionData.attempts = 5
    /\ CorrectCode(out.req)
    /\ out.res.code = "EXPIRED_OTP"

----------------------------------------------------------------------------
(* C6 *)

\* C6: no step of a verifyOtp request changes the store before the session is
\* read, and the step that reads a session bound to another phone answers
\* PHONE_MISMATCH and leaves the store and the pending deletions as they were,
\* whatever the session's used flag, expiry and attempts.
C6_MismatchUntouched ==
    [][\A i \in Instances :
          /\ (inst[i].pc = "idle" /\ inst'[i].fn = "verifyOtp")
                => otp_sessions' = otp_sessions
          /\ (/\ inst[i].pc = "get" /\ inst'[i] # inst[i]
              /\ GetDoc(inst[i].sessionId).exists
              /\ GetDoc(inst[i].sessionId).phone # inst[i].phone)
                => /\ out'.res.code = "PHONE_MISMATCH"
                   /\ out'.res.status = 403
                   /\ inst'[i] = Idle
                   /\ otp_sessions' = otp_sessions
                   /\ timers' = timers]_vars

\* another phone against an expired session at five attempts, which is still stored as it was read
C6_Witness ==
    /\ VerifyAnswered
    /\ out.res.code = "PHONE_MISMATCH"
    /\ out.req.sessionData.attempts = 5
    /\ now > out.req.sessionData.expiresAt
    /\ GetDoc(out.req.sessionId) = out.req.sessionData

----------------------------------------------------------------------------
(* C7 *)

\* instance i holds a verifyOtp request that read a live session (bound to its
\* phone, unused, unexpired, attempts below 5) and whose code failed the comparison
WrongCodeOnLive(i) == inst[i].fn = "verifyOtp" /\ RuleOf(inst[i]) = "INVALID_OTP"

\* the step of i stores attempts = a + 1 and nothing else, and answers INVALID_OTP
\* with attemptsRemaining = 5 - (a + 1)
CountsTheAttempt(i) ==
    LET sid == inst[i].sessionId
        a == inst[i].sessionData.attempts IN
    /\ sid \in DOMAIN otp_sessions
    /\ otp_sessions' = [otp_sessions EXCEPT ![sid].attempts = a + 1]
    /\ out'.res.code = "INVALID_OTP"
    /\ out'.res.status = 403
    /\ out'.res.attemptsRemaining = 5 - (a + 1)
    /\ out'.res.attemptsRemaining \in 0..4

\* C7 as stated: a verifyOtp request with a wrong code against a live session with
\* attempts = a stores attempts = a + 1, changes nothing else, keeps the session
\* and answers INVALID_OTP with attemptsRemaining = 5 - (a + 1) in 0..4.
C7_AsStated ==
    [][\A i \in Instances :
          (WrongCodeOnLive(i) /\ inst'[i] # inst[i]) => CountsTheAttempt(i)]_vars

\* C7, amended: a verifyOtp request with a wrong code that read a live session
\* with attempts = a stores attempts = a + 1, changes nothing else, keeps the
\* session and answers INVALID_OTP with attemptsRemaining = 5 - (a + 1) in 0..4,
\* provided the session is still stored when its update is applied; if the session
\* was deleted in between, nothing is stored and the answer is INTERNAL_ERROR.
C7_WrongCode ==
    [][\A i \in Instances :
          (WrongCodeOnLive(i) /\ inst'[i] # inst[i]) =>
              IF inst[i].sessionId \in DOMAIN otp_sessions
              THEN CountsTheAttempt(i)
              ELSE /\ otp_sessions' = otp_sessions
                   /\ out'.res.code = "INTERNAL_ERROR"
                   /\ out'.res.status = 500]_vars

\* the fifth wrong code: attempts 5 stored, none remaining
C7_Witness ==
    /\ VerifyAnswered
    /\ out.res.code = "INVALID_OTP"
    /\ out.res.attemptsRemaining = 0
    /\ GetDoc(out.req.sessionId) = [out.req.sessionData EXCEPT !.attempts = 5]

----------------------------------------------------------------------------
(* C8 *)

\* the INVALID_OTP responses sent so far for a session id
FailuresOf(sid) == IF sid \in DOMAIN failures THEN failures[sid] ELSE 0

\* C8: when requests never overlap, a verifyOtp request that names the bound
\* phone of an unused session and reads it before expiry is answered as follows.
\* With a wrong code, as the k-th such request (k <= 4) for the session: INVALID_OTP
\* with attemptsRemaining = 5 - k. With the right code after at most 4 wrong ones:
\* success, and the session, while it remains stored, has used = true.
C8_ScenarioA ==
    (ReadBoundUnused /\ ~(out.req.now > out.req.sessionData.expiresAt)) =>
        LET sid == out.req.sessionId
            wrong == FailuresOf(sid)
            k == IF out.res.code = "INVALID_OTP" THEN wrong ELSE wrong + 1 IN
        IF ~CorrectCode(out.req)
        THEN k <= 4 => /\ out.res.code = "INVALID_OTP"
                       /\ out.res.attemptsRemaining = 5 - k
        ELSE wrong <= 4 => /\ out.res.success
                           /\ out.res.status = 200
                           /\ sid \in verified
                           /\ GetDoc(sid).exists => GetDoc(sid).used

\* four wrong codes, then the right one: success, and the stored session is used
C8_Witness ==
    /\ VerifyAnswered
    /\ out.res.success
    /\ FailuresOf(out.req.sessionId) = 4
    /\ out.req.sessionData.attempts = 4
    /\ GetDoc(out.req.sessionId).exists
    /\ GetDoc(out.req.sessionId).used

----------------------------------------------------------------------------
(* C9 *)

\* the response just sent answers a sendOtp request that passed validation;
\* out.req.prior is then the number of sessions sendOtp had persisted for the
\* phone, created inside the window, when the request ran its rate-limit query
SendAnswered == out.req.fn = "sendOtp" /\ out.req.pc # "idle"

\* C9 as stated: a sendOtp request for a phone that already had three issuances
\* inside the trailing 15 minutes is answered 429 RATE_LIMIT_EXCEEDED, whatever
\* was verified in between.
C9_FourthRejected ==
    (SendAnswered /\ out.req.prior >= 3)
        => out.res.code = "RATE_LIMIT_EXCEEDED" /\ out.res.status = 429

----------------------------------------------------------------------------
(* C10 *)

\* C10 as stated: the store never holds more than 3 sessions of one phone created
\* inside the trailing 15 minutes, under every interleaving of sendOtp requests.
C10_WindowCap ==
    \A phone \in Phones : Cardinality(RecentSessions(phone, now - WINDOW_MS)) <= 3

----------------------------------------------------------------------------
(* C11 *)

\* the response just sent rejects an issuance request (sendOtp or resetPassword
\* request_otp) for its rate limit
RateLimitAnswered ==
    /\ out.req.fn \in {"sendOtp", "request_otp"}
    /\ out.res.code = "RATE_LIMIT_EXCEEDED"

\* C11 as stated: the retryAfter of every RATE_LIMIT_EXCEEDED response is greater
\* than 0 and at most 900 seconds, however long after the count query the wait is
\* computed.
C11_RetryAfterRange ==
    RateLimitAnswered => out.res.retryAfter > 0 /\ out.res.retryAfter <= 900

----------------------------------------------------------------------------
(* C12 *)

\* the step just taken called the Delivery Dispatcher for the phone and got a failure
DeliveryFailed(phone) == ("[Twilio] Failed to send SMS to " \o maskPhoneNumber(phone)) \in logs'

\* C12: the step in which the Delivery Dispatcher returns failure to a sendOtp or
\* resetPassword request_otp request ends the request with HTTP 500 and the
\* dispatcher's error code, and leaves both session stores as they were.
C12_NoSessionOnFailure ==
    [][\A i \in Instances :
          (inst[i].pc \in {"hash", "r_hash"} /\ DeliveryFailed(inst[i].phone)) =>
              /\ inst'[i] = Idle
              /\ out'.res.status = 500
              /\ out'.res.code = TwilioError
              /\ ~out'.res.success
              /\ out'.res.sessionId = 0
              /\ otp_sessions' = otp_sessions
              /\ password_reset_sessions' = password_reset_sessions]_vars

\* a failed delivery of a password-reset code while a sendOtp session is stored
C12_Witness ==
    /\ out.req.fn = "request_otp"
    /\ out.res.code = TwilioError
    /\ out.res.status = 500
    /\ ("[resetPassword] Failed to send OTP to " \o maskPhoneNumber(out.req.phone)) \in logs
    /\ DOMAIN otp_sessions # {}
    /\ DOMAIN password_reset_sessions = {}

----------------------------------------------------------------------------
(* C13 *)

\* the step just taken is the catch of checkRateLimit or checkResetRateLimit
QueryFailed ==
    \/ "[sendOtp] Rate limit check failed: UNAVAILABLE" \in logs'
    \/ "[resetPassword] Rate limit check failed: UNAVAILABLE" \in logs'

\* the locals a request has once checkRateLimit has let it through, the results
\* of the query left aside
Admitted(locals) == [locals EXCEPT !.size = 0, !.oldest = 0, !.prior = 0]

\* C13: when the rate-limit query throws, the request is neither rejected nor
\* answered: with the stores untouched it goes on exactly as a request under the
\* limit does, sendOtp to a generated code and bcrypt.hash, request_otp to the
\* account lookup that precedes them.
C13_FailOpen ==
    [][\A i \in Instances :
          (inst[i].pc \in {"rate_query", "r_rate_query"} /\ QueryFailed) =>
              /\ out' = NoOut
              /\ otp_sessions' = otp_sessions
              /\ password_reset_sessions' = password_reset_sessions
              /\ nextId' = nextId
              /\ IF inst[i].fn = "sendOtp"
                 THEN Admitted(inst'[i]) \in
                         {Admitted([inst[i] EXCEPT !.pc = "hash",
                                                   !.otp = generateSecureOTP(n)]) :
                             n \in RandomInts}
                 ELSE Admitted(inst'[i]) = Admitted([inst[i] EXCEPT !.pc = "r_user_lookup"])]_vars

\* a sendOtp request that was let through without a count gets its session stored
\* although three sessions of the phone are already inside the window
C13_Witness ==
    /\ out.req.fn = "sendOtp"
    /\ out.res.success
    /\ out.req.size = 0
    /\ Cardinality(RecentSessions(out.req.phone, out.req.since)) > RATE_LIMIT

----------------------------------------------------------------------------
(* C14, C15 *)

\* sub occurs in text
Contains(text, sub) ==
    \E k \in 1..(Len(text) - Len(sub) + 1) : SubSeq(text, k, k + Len(sub) - 1) = sub

\* the response just sent answers an issuance request that had generated a code
IssuanceAnswered == out.req.fn \in {"sendOtp", "request_otp"} /\ out.req.otp # ""

\* the text fields of a response body
TextFields(res) == {res.code, res.messageSid, res.testOtp}

\* C14 as stated: no field of the response to a sendOtp or resetPassword
\* request_otp request holds the code the request generated.
C14_NoCodeInResponse ==
    IssuanceAnswered => \A field \in TextFields(out.res) : ~Contains(field, out.req.otp)

\* the codes generated by the issuance requests that took or finished the last step
StepCodes ==
    ({inst[i].otp : i \in {j \in Instances : inst[j].fn \in {"sendOtp", "request_otp"}}}
     \cup (IF out.req.fn \in {"sendOtp", "request_otp"} THEN {out.req.otp} ELSE {}))
    \ {""}

\* the text fields of the stored session documents
StoredText ==
    UNION {{otp_sessions[s].phone, otp_sessions[s].otpHash} : s \in DOMAIN otp_sessions}
    \cup UNION {{password_reset_sessions[s].phone, password_reset_sessions[s].otpHash} :
                   s \in DOMAIN password_reset_sessions}

\* C15 as stated: no console line written by a step of an issuance request
\* contains the request's code, and no field of a stored session is that code.
C15_NoPlaintextKept ==
    \A otp \in StepCodes :
        /\ \A line \in logs : ~Contains(line, otp)
        /\ otp \notin StoredText

----------------------------------------------------------------------------
(* C16, C17 *)

\* C16 as stated: for every session, however the verifyOtp requests against it
\* interleave, at most 5 wrong codes are compared with its hash and answered
\* INVALID_OTP.
C16_AtMostFiveGuesses ==
    \A sid \in DOMAIN issued : FailuresOf(sid) <= MAX_ATTEMPTS

\* C17 as stated: the stored attempts counter of a session falls short of the
\* failed comparisons answered for it by at most the number of requests in flight
\* at a time, which is at most the number of instances.
C17_BoundedUndercount ==
    \A sid \in DOMAIN otp_sessions :
        FailuresOf(sid) - otp_sessions[sid].attempts <= NumInstances

----------------------------------------------------------------------------
(* C20 *)

\* C20: a verifyOtp request whose sessionRef.get() finds no document under its
\* session id is answered 404 SESSION_NOT_FOUND by that step, which leaves the
\* store as it was; and no step of a verifyOtp request adds a document to the
\* store.
C20_UnknownSession ==
    [][\A i \in Instances :
          (inst[i].fn = "verifyOtp" /\ inst'[i] # inst[i]) =>
              /\ DOMAIN otp_sessions' \subseteq DOMAIN otp_sessions
              /\ (inst[i].pc = "get" /\ inst[i].sessionId \notin DOMAIN otp_sessions) =>
                     /\ inst'[i] = Idle
                     /\ out'.req.sessionId = inst[i].sessionId
                     /\ out'.res.status = 404
                     /\ out'.res.code = "SESSION_NOT_FOUND"
                     /\ ~out'.res.success
                     /\ otp_sessions' = otp_sessions]_vars

\* SESSION_NOT_FOUND for an id that is not stored while another session is
C20_Witness ==
    /\ VerifyAnswered
    /\ out.res.code = "SESSION_NOT_FOUND"
    /\ out.res.status = 404
    /\ out.req.sessionId \notin DOMAIN otp_sessions
    /\ DOMAIN otp_sessions # {}

----------------------------------------------------------------------------
(* C19 *)

\* C19: the step that answers RATE_LIMIT_EXCEEDED ends a request that has
\* generated no code, has picked no session id and built no session, and has not
\* called the Delivery Dispatcher; the step writes to neither session store and
\* draws no document id.
C19_RejectedBeforeCode ==
    [][out'.res.code = "RATE_LIMIT_EXCEEDED" =>
          /\ out'.req.fn \in {"sendOtp", "request_otp"}
          /\ out'.res.status = 429
          /\ out'.req.otp = ""
          /\ out'.req.sessionId = 0
          /\ out'.req.sessionData = NoDoc
          /\ \A line \in logs' : ~Contains(line, "[Twilio]") /\ ~Contains(line, "OTP: ")
          /\ otp_sessions' = otp_sessions
          /\ password_reset_sessions' = password_reset_sessions
          /\ nextId' = nextId]_vars

\* a fourth password-reset request inside the window, rejected with the three
\* sessions of the phone left in the store
C19_Witness ==
    /\ RateLimitAnswered
    /\ out.req.fn = "request_otp"
    /\ out.req.otp = ""
    /\ Cardinality(RecentResets(out.req.phone, out.req.since)) = RATE_LIMIT
    /\ nextId = RATE_LIMIT + 1

----------------------------------------------------------------------------
(* C18 *)

\* the request carries a phone that is not an E.164 number or a code that is not
\* six digits
Malformed(req) ==
    \/ req.phone # "" /\ ~isValidPhoneNumber(req.phone)
    \/ req.otp # "" /\ ~isValidOTP(req.otp)

\* C18 as stated: a request with a malformed phone or code never gets past
\* validation, so that it never reads or writes a session store, and is answered
\* with a 400 validation error.
C18_RejectedBeforeStore ==
    /\ \A i \in Instances : inst[i].pc # "idle" => ~Malformed(inst[i])
    /\ (out.req.fn # "idle" /\ Malformed(out.req)) =>
          /\ out.res.status = 400
          /\ out.req.pc = "idle"
          /\ out.req.sessionData = NoDoc

----------------------------------------------------------------------------
(* C21 *)

\* the session a verifyOtp request is about to read is live for it: stored, bound
\* to its phone, unused, unexpired and with attempts left
LiveFor(i) ==
    /\ inst[i].fn = "verifyOtp"
    /\ inst[i].pc = "get"
    /\ SessionGate(GetDoc(inst[i].sessionId), inst[i].phone, now) = "COMPARE"

----------------------------------------------------------------------------
(* C22, C23 *)

\* the session ids of the clean-up scenario
SessionIds == 1..MaxSessions

\* the session is stored with used = true
StoredUsed(sid) == sid \in DOMAIN otp_sessions /\ otp_sessions[sid].used

\* C22 as stated: the step that records a successful verification leaves the
\* session stored with used = true; when the success response is sent the session
\* is still stored with used = true; a used session leaves the store only through
\* its timer, once the grace delay has passed; and every used session eventually
\* leaves the store.
C22_GraceThenGone ==
    /\ [][\A i \in Instances :
             (inst[i].pc = "update_used" /\ inst'[i].pc = "auth_lookup") =>
                 StoredUsed(inst[i].sessionId)']_vars
    /\ []((VerifyAnswered /\ out.res.success) => StoredUsed(out.req.sessionId))
    /\ [][\A sid \in SessionIds :
             (StoredUsed(sid) /\ sid \notin DOMAIN otp_sessions') =>
                 \E t \in timers : t.sid = sid /\ now >= t.due /\ t \notin timers']_vars
    /\ \A sid \in SessionIds : [](StoredUsed(sid) => <>(sid \notin DOMAIN otp_sessions))

\* C23 as stated: every session that is persisted is eventually deleted, whether
\* or not a verification request is ever made for it.
C23_Ephemeral ==
    \A sid \in SessionIds :
        [](sid \in DOMAIN otp_sessions => <>(sid \notin DOMAIN otp_sessions))

----------------------------------------------------------------------------
(* C24 *)

\* the step just taken ran the catch block of an export
CaughtError == \E line \in logs' : Contains(line, "] Unexpected error: ")

\* the codes that describe the state of a session or of the request's code
LifecycleCodes ==
    {"SESSION_NOT_FOUND", "PHONE_MISMATCH", "OTP_ALREADY_USED", "EXPIRED_OTP",
     "MAX_ATTEMPTS_EXCEEDED", "INVALID_OTP"}

\* C24: the step in which a Session Store or Identity Provider call of a request
\* throws ends the request with HTTP 500 and INTERNAL_ERROR, never with success
\* or a session-lifecycle code, and changes neither session store, nor the
\* pending deletions, nor the accounts: what the request had persisted before
\* stays, and nothing else is written.
C24_GenericServerError ==
    [][CaughtError =>
          /\ out'.res.status = 500
          /\ out'.res.code = "INTERNAL_ERROR"
          /\ out'.res.code \notin LifecycleCodes
          /\ ~out'.res.success
          /\ out'.req.pc \in AwaitingCall
          /\ otp_sessions' = otp_sessions
          /\ password_reset_sessions' = password_reset_sessions
          /\ timers' = timers /\ resetTimers' = resetTimers
          /\ authUsers' = authUsers /\ passwords' = passwords]_vars

\* createUser throws after update({used: true}) was applied: 500, with the used
\* flag persisted
C24_Witness ==
    /\ out.req.fn = "verifyOtp"
    /\ out.req.pc \in {"auth_lookup", "create_user"}
    /\ out.res.code = "INTERNAL_ERROR"
    /\ out.res.status = 500
    /\ StoredUsed(out.req.sessionId)
    /\ out.req.sessionId \notin verified

----------------------------------------------------------------------------
(* C25 *)

\* the response handleRequestOTP sends for a phone that has no account
NoAccountResponse == [Res(200, "") EXCEPT !.success = TRUE]

\* C25 as stated: every successful response to a resetPassword request_otp
\* request is the response a phone without an account gets, field for field, so
\* that the response does not tell whether the phone is registered.
C25_NoEnumeration ==
    (out.req.fn = "request_otp" /\ out.res.success) => out.res = NoAccountResponse

----------------------------------------------------------------------------
(* C26 *)

\* the password stored for a phone, if any
PasswordOf(phone) == IF phone \in DOMAIN passwords THEN passwords[phone] ELSE ""

\* the reset_password request has had its updateUser call applied
PasswordWritten(q) == q.fn = "reset_password" /\ q.pc = "p_update_used"

\* C26 as stated: a password changes only in a step of a reset_password request
\* that read a session bound to its phone, unused, unexpired, with attempts < 5
\* and a hash matching its code; and no reset_password request that is answered
\* with a failure code has changed the password.
C26_OnlyValidReset ==
    /\ [][\A phone \in Phones :
             PasswordOf(phone)' # PasswordOf(phone) =>
                 \E i \in Instances :
                     /\ inst[i].fn = "reset_password"
                     /\ inst[i].phone = phone
                     /\ inst'[i] # inst[i]
                     /\ ResetGate(inst[i].sessionData, phone, inst[i].now) = "COMPARE"
                     /\ bcryptCompare(inst[i].otp, inst[i].sessionData.otpHash)]_vars
    /\ []((out.res.status # 0 /\ ~out.res.success) => ~PasswordWritten(out.req))

----------------------------------------------------------------------------
(* C27 *)

\* C27: in every reachable state, however verifyOtp requests interleave, the
\* attempts field of every stored session is between 0 and 5.
C27_AttemptsInRange ==
    \A sid \in DOMAIN otp_sessions :
        otp_sessions[sid].attempts >= 0 /\ otp_sessions[sid].attempts <= MAX_ATTEMPTS

\* two overlapping requests have both written 5: six wrong codes were answered
\* INVALID_OTP and the stored counter is at its bound
C27_Witness ==
    \E sid \in DOMAIN otp_sessions :
        /\ otp_sessions[sid].attempts = MAX_ATTEMPTS
        /\ FailuresOf(sid) > MAX_ATTEMPTS
        /\ out.res.code = "INVALID_OTP"

----------------------------------------------------------------------------
(* C28 *)

\* the session stays stored over the step
Kept(sid) == sid \in DOMAIN otp_sessions /\ sid \in DOMAIN otp_sessions'

\* C28 as stated: every update({attempts}) that is applied raises the stored
\* value by exactly 1; the stored value changes only in such a step, taken by a
\* request whose code did not match the hash it read; and the stored value never
\* decreases, however verifyOtp requests overlap.
C28_OnlyIncrements ==
    [][/\ \A i \in Instances :
             (inst[i].pc = "update_attempts" /\ inst'[i] # inst[i]
                /\ Kept(inst[i].sessionId)) =>
                 otp_sessions'[inst[i].sessionId].attempts
                    = otp_sessions[inst[i].sessionId].attempts + 1
       /\ \A sid \in DOMAIN otp_sessions :
             (Kept(sid) /\ otp_sessions'[sid].attempts # otp_sessions[sid].attempts) =>
                 /\ otp_sessions'[sid].attempts > otp_sessions[sid].attempts
                 /\ \E i \in Instances :
                        /\ inst[i].pc = "update_attempts"
                        /\ inst[i].sessionId = sid
                        /\ inst'[i] # inst[i]
                        /\ ~bcryptCompare(inst[i].otp, inst[i].sessionData.otpHash)]_vars

----------------------------------------------------------------------------
(* C29 *)

\* the document is a session as sendOtp and handleRequestOTP create it
Fresh(doc) ==
    /\ doc.attempts = 0
    /\ ~doc.used
    /\ doc.expiresAt = doc.createdAt + TTL_MS

\* C29: a session enters otp_sessions or password_reset_sessions with
\* attempts = 0, used = false and expiresAt = createdAt + 5 minutes, and every
\* stored session has expiresAt = createdAt + 5 minutes in every reachable state.
C29_CreatedFresh ==
    /\ [](/\ \A sid \in DOMAIN otp_sessions :
                otp_sessions[sid].expiresAt = otp_sessions[sid].createdAt + TTL_MS
          /\ \A sid \in DOMAIN password_reset_sessions :
                password_reset_sessions[sid].expiresAt
                   = password_reset_sessions[sid].createdAt + TTL_MS)
    /\ [][/\ \A sid \in DOMAIN otp_sessions' \ DOMAIN otp_sessions :
                Fresh(otp_sessions'[sid])
          /\ \A sid \in DOMAIN password_reset_sessions' \ DOMAIN password_reset_sessions :
                Fresh(password_reset_sessions'[sid])]_vars

\* a session created after the start, since then marked used, with its expiry
\* still five minutes after its creation
C29_Witness ==
    \E sid \in DOMAIN otp_sessions :
        /\ otp_sessions[sid].used
        /\ otp_sessions[sid].createdAt > 0
        /\ otp_sessions[sid].attempts > 0
        /\ otp_sessions[sid].expiresAt = otp_sessions[sid].createdAt + TTL_MS

----------------------------------------------------------------------------
(* C30 *)

\* the fields of a session document that are set at creation
Immutable(doc) == <<doc.phone, doc.otpHash, doc.createdAt, doc.expiresAt, doc.name,
                    doc.email>>

\* the session records whose content, or presence, the step changes
Touched ==
    {sid \in DOMAIN otp_sessions \cup DOMAIN otp_sessions' : GetDoc(sid)' # GetDoc(sid)}

\* the same for password_reset_sessions
TouchedReset ==
    {sid \in DOMAIN password_reset_sessions \cup DOMAIN password_reset_sessions' :
        GetResetDoc(sid)' # GetResetDoc(sid)}

\* the fields of a password-reset session document that are set at creation
ImmutableReset(doc) == <<doc.phone, doc.otpHash, doc.createdAt, doc.expiresAt>>

\* C30: a session that stays stored over a step keeps its phone, code hash,
\* createdAt, expiresAt, name and email; a step changes at most one session
\* record; and a step of a verifyOtp or reset_password request changes no record
\* but the one the request names, in its own collection, by setting attempts,
\* setting used, or deleting it.
C30_FrameOfSession ==
    [][/\ \A sid \in DOMAIN otp_sessions :
             sid \in DOMAIN otp_sessions' =>
                 Immutable(otp_sessions'[sid]) = Immutable(otp_sessions[sid])
       /\ \A sid \in DOMAIN password_reset_sessions :
             sid \in DOMAIN password_reset_sessions' =>
                 ImmutableReset(password_reset_sessions'[sid])
                    = ImmutableReset(password_reset_sessions[sid])
       /\ Cardinality(Touched) + Cardinality(TouchedReset) <= 1
       /\ \A i \in Instances :
             (inst[i].fn = "reset_password" /\ inst'[i] # inst[i]) =>
                 /\ Touched = {}
                 /\ TouchedReset \subseteq {inst[i].sessionId}
                 /\ \A sid \in TouchedReset :
                        \/ sid \notin DOMAIN password_reset_sessions'
                        \/ password_reset_sessions'[sid] =
                              [password_reset_sessions[sid] EXCEPT
                                  !.attempts = inst[i].newAttempts]
                        \/ password_reset_sessions'[sid] =
                              [password_reset_sessions[sid] EXCEPT !.used = TRUE]
       /\ \A i \in Instances :
             (inst[i].fn = "verifyOtp" /\ inst'[i] # inst[i]) =>
                 /\ TouchedReset = {}
                 /\ Touched \subseteq {inst[i].sessionId}
                 /\ \A sid \in Touched :
                        \/ sid \notin DOMAIN otp_sessions'
                        \/ otp_sessions'[sid] =
                              [otp_sessions[sid] EXCEPT !.attempts = inst[i].newAttempts]
                        \/ otp_sessions'[sid] = [otp_sessions[sid] EXCEPT !.used = TRUE]]_vars

\* a wrong code has been counted on the second session while the first, already
\* used, is as it was
C30_Witness ==
    /\ VerifyAnswered
    /\ out.res.code = "INVALID_OTP"
    /\ out.req.sessionId = 2
    /\ StoredUsed(1)
    /\ GetDoc(2).attempts = 1
    /\ GetDoc(1).attempts = 0

----------------------------------------------------------------------------
(* C31 *)

\* the fifth failed attempt is recorded on the session
Exhausted(sid) == sid \in DOMAIN otp_sessions /\ otp_sessions[sid].attempts = MAX_ATTEMPTS

\* C31 as stated: once attempts = 5 is stored on a session, the session is
\* eventually deleted from the store.
C31_LockedThenDeleted ==
    \A sid \in SessionIds : [](Exhausted(sid) => <>(sid \notin DOMAIN otp_sessions))

----------------------------------------------------------------------------
(* C32 *)

\* the sessionCount a sendOtp request for the phone gets when it is received at
\* time t and no session has been added to the store since
CountAt(phone, t) == Cardinality(RecentSessions(phone, t - WINDOW_MS))

\* C32 as stated: when a sendOtp request is rejected at time t with retryAfter r,
\* a request for the same phone received r seconds later, no session having been
\* stored in between, is under the limit.
C32_WaitSuffices ==
    (RateLimitAnswered /\ out.req.fn = "sendOtp") =>
        ~RateLimited(CountAt(out.req.phone, now + out.res.retryAfter * 1000))

----------------------------------------------------------------------------
(* C33 *)

\* the sendOtp request just answered was turned away by validation or by the
\* rate limiter
TurnedAway ==
    out.res.code \in {"MISSING_PHONE", "INVALID_PHONE_FORMAT", "RATE_LIMIT_EXCEEDED"}

\* C33: a sendOtp request that passed validation and the rate limiter has called
\* the delivery function exactly once when it is answered, sendSMSOTP if its
\* source is 'sms' and sendWhatsAppOTP otherwise; a request turned away by
\* validation or the rate limiter has called neither.
C33_OneDeliveryCall ==
    (out.req.fn = "sendOtp") =>
        /\ TurnedAway => out.req.sent = <<>>
        /\ ~TurnedAway =>
              out.req.sent = <<IF out.req.source = "sms" THEN "sendSMSOTP"
                               ELSE "sendWhatsAppOTP">>

\* an SMS request is answered 200 after one call of sendSMSOTP, with two sessions
\* stored by then
C33_Witness ==
    /\ out.req.fn = "sendOtp" /\ out.res.status = 200
    /\ out.req.source = "sms" /\ out.req.sent = <<"sendSMSOTP">>
    /\ \E s \in DOMAIN otp_sessions : otp_sessions[s].source = "whatsapp"

\* a request is turned away by the rate limiter without a delivery call
C33_WitnessRejected ==
    /\ out.req.fn = "sendOtp" /\ out.res.code = "RATE_LIMIT_EXCEEDED"
    /\ out.req.sent = <<>>

----------------------------------------------------------------------------
(* C34 *)

\* C34 as stated: no two documents of the users collection with different ids
\* hold the same phone.
C34_UniquePhones ==
    \A u, v \in DOMAIN users : users[u].phone = users[v].phone => u = v

----------------------------------------------------------------------------
(* C35 *)

\* the verifyOtp request just answered had persisted used = true: it was past
\* sessionRef.update({used: true}), in one of the Firebase Auth calls
ConsumedSession ==
    out.req.fn = "verifyOtp" /\ out.req.pc \in {"auth_lookup", "create_user"}

\* C35 as stated: a verifyOtp request that has persisted used = true is answered
\* with success; none is answered with an error after consuming the session.
C35_ConsumedThenSuccess ==
    ConsumedSession => (out.res.status = 200 /\ out.res.success)

----------------------------------------------------------------------------
(* C36 *)

\* the issuance just answered had its code accepted by the delivery function: it
\* was in sessionRef.set
DeliveredAndAnswered ==
    out.req.fn \in {"sendOtp", "request_otp"} /\ out.req.pc \in {"set", "r_set"}

\* the collection of the flow holds a session with the hash of the code
SessionHolds(fn, otp) ==
    IF fn = "sendOtp"
    THEN \E s \in DOMAIN otp_sessions : otp_sessions[s].otpHash = bcryptHash(otp)
    ELSE \E s \in DOMAIN password_reset_sessions :
            password_reset_sessions[s].otpHash = bcryptHash(otp)

\* C36 as stated: when an issuance whose code was delivered has been answered, a
\* session holding the hash of that code is in the store.
C36_NoPhantomCode ==
    DeliveredAndAnswered => SessionHolds(out.req.fn, out.req.otp)

----------------------------------------------------------------------------
(* C37 *)

\* the step applies the updateUser call of a reset_password request
ChangesPassword(i) ==
    /\ inst[i].fn = "reset_password"
    /\ inst[i].pc = "p_update_user"
    /\ inst'[i].pc = "p_update_used"

\* C37 as stated, for the scenarios that issue a single reset session (every
\* password change is then authorised by that session): a password is changed
\* only while no password has been changed before.
C37_OneChangePerSession ==
    [][\A i \in Instances : ChangesPassword(i) => DOMAIN passwords = {}]_vars

----------------------------------------------------------------------------
(* C38 *)

\* the step answers a request of the handler fn that passed validation in the way
\* the ordered rules prescribe for the session it read: the failure code of the
\* first rule that matches; no change of its collection for an unknown, foreign
\* or used session; the session deleted for an expired or exhausted one; attempts
\* + 1 for a wrong code; and for the right code the session, while stored, marked
\* used with its deletion scheduled
FollowsMachine(fn, col, colNext, timersNext) ==
    LET q == out'.req
        rule == RuleOf(q)
        sid == q.sessionId IN
    (q.fn = fn /\ q.pc # "idle") =>
        /\ rule # "SUCCESS" => (out'.res.code = rule /\ ~out'.res.success)
        /\ rule \in {"SESSION_NOT_FOUND", "PHONE_MISMATCH", "OTP_ALREADY_USED"} =>
              colNext = col
        /\ rule \in {"EXPIRED_OTP", "MAX_ATTEMPTS_EXCEEDED"} =>
              colNext = [s \in DOMAIN col \ {sid} |-> col[s]]
        /\ rule = "INVALID_OTP" =>
              colNext = [col EXCEPT ![sid].attempts = q.sessionData.attempts + 1]
        /\ rule = "SUCCESS" =>
              \/ sid \notin DOMAIN colNext
              \/ /\ colNext[sid].used
                 /\ \E t \in timersNext : t.sid = sid

----------------------------------------------------------------------------
(* C39 *)

\* the id was handed out by doc(), is not in the collection, and no issuance is
\* about to write it with the set call named: it was deleted, or never stored
Gone(col, setPc, sid) ==
    /\ sid < nextId
    /\ sid \notin DOMAIN col
    /\ \A i \in Instances : ~(inst[i].pc = setPc /\ inst[i].sessionId = sid)

\* the step runs a delayed deletion and leaves every other document as it was
OnlyOwnRecord(tms, tmsNext, col, colNext) ==
    \A t \in tms :
        t \notin tmsNext =>
            \A s \in DOMAIN col \ {t.sid} : s \in DOMAIN colNext /\ colNext[s] = col[s]

----------------------------------------------------------------------------
(* C40 *)

SignupFns == {"sendOtp", "verifyOtp"}

ResetFns == {"request_otp", "reset_password"}

\* the step is one of a request of the given functions
StepOf(fns) == \E i \in Instances : inst[i].fn \in fns /\ inst'[i] # inst[i]

\* C40: the signup flow and the password-reset flow are isolated. A
\* reset_password request that names a session stored by sendOtp is answered
\* SESSION_NOT_FOUND, and a verifyOtp request that names a session stored by
\* request_otp is answered SESSION_NOT_FOUND; the count of each rate limiter is
\* the number of sessions of its own collection for the phone in the window; and
\* no step of a request or a delayed deletion of one flow changes the collection
\* or the pending deletions of the other.
C40_FlowsIsolated ==
    /\ []((out.req.fn = "reset_password" /\ out.req.pc # "idle"
              /\ out.req.sessionId \in DOMAIN issued)
            => out.res.code = "SESSION_NOT_FOUND")
    /\ []((out.req.fn = "verifyOtp" /\ out.req.pc # "idle"
              /\ out.req.sessionId \in DOMAIN password_reset_sessions)
            => out.res.code = "SESSION_NOT_FOUND")
    /\ [][\A i \in Instances :
             /\ (inst[i].pc = "rate_query" /\ inst'[i].pc = "rate_decide") =>
                   inst'[i].size =
                       Cardinality({s \in DOMAIN otp_sessions :
                                       /\ otp_sessions[s].phone = inst[i].phone
                                       /\ otp_sessions[s].createdAt > inst[i].since})
             /\ (inst[i].pc = "r_rate_query" /\ inst'[i].pc = "r_rate_decide") =>
                   inst'[i].size =
                       Cardinality({s \in DOMAIN password_reset_sessions :
                                       /\ password_reset_sessions[s].phone = inst[i].phone
                                       /\ password_reset_sessions[s].createdAt
                                              > inst[i].since})]_vars
    /\ [][/\ (StepOf(SignupFns) \/ timers' # timers) =>
                UNCHANGED <<password_reset_sessions, resetTimers>>
          /\ (StepOf(ResetFns) \/ resetTimers' # resetTimers) =>
                UNCHANGED <<otp_sessions, timers>>]_vars

\* a reset_password request that names a stored sendOtp session is answered
\* SESSION_NOT_FOUND while a reset session of the same phone is stored
C40_Witness ==
    /\ out.req.fn = "reset_password" /\ out.res.code = "SESSION_NOT_FOUND"
    /\ out.req.sessionId \in DOMAIN otp_sessions
    /\ \E s \in DOMAIN password_reset_sessions :
          password_reset_sessions[s].phone = out.req.phone

====
